---- MODULE Spec2Model ----
(***************************************************************************)
(* Model of the collage layout engine (image-processor/src/layout.rs,      *)
(* algorithm.rs, lib.rs).                                                  *)
(*                                                                         *)
(* A Layout is a petgraph Graph<NodeLabel, ()> plus canvas_dimensions.     *)
(* The graph is modelled with the adjacency lists petgraph keeps: `nodes`  *)
(* (weights by node index), `edges` (source, target by edge index), and    *)
(* for every node the list of its outgoing (`out`) and incoming (`inn`)    *)
(* edge indices, most recently added first, which is the order in which    *)
(* petgraph's linked lists are walked by neighbors(), edges() and          *)
(* find_edge().  Node, edge and blueprint indices are 1-based here where   *)
(* the code is 0-based; index k of the code is k + 1 of the model.         *)
(*                                                                         *)
(* A Leaf label holds the image it refers to; label equality is equality   *)
(* of the image contents, as the derived PartialEq of NodeLabel gives.     *)
(***************************************************************************)
EXTENDS Integers, Sequences, FiniteSets, TLC

VARIABLES images, A, B, op, pre, out, hist

vars == <<images, A, B, op, pre, out, hist>>

\* ---------------------------------------------------------------- bounds
MaxImages == 5
MaxShift == 2
MaxAttach == 2
MaxPick == 1
MaxEntries == 3
MaxSteps == 2
MaxMutImages == 4
MaxCrossImages == 4
MaxLineageImages == 6
FamilyImages == 5
MaxCompareImages == 4
PopAttach == 2
PopShift == 1
PopPick == 1
MaxCanvas == 3
FactorSteps == 4

MantissaBits == 9

MaxRenderImages == 4

MaxRenderCanvas == 6

MaxMagnitude == 3

MaxEvolveImages == 2

generation_limit == 3

MaxSeed == 3

\* The width of a u32 in bits, scaled down: the canvases of the
\* specifications that bound the canvas stay below the word size.
U32Bits == 6

U32Modulus == 2 ^ U32Bits

\* The number of canvas mutations in a row explored from a new layout.
MaxWordSteps == 5

\* The number of images whose widths or heights are summed for a canvas.
MaxCostPick == 3

\* ------------------------------------------------------- sequence helpers
Min(a, b) == IF a < b THEN a ELSE b

Range(s) == {s[i] : i \in 1..Len(s)}

Contains(s, x) == \E i \in 1..Len(s) : s[i] = x

SeqRemove(s, x) == SelectSeq(s, LAMBDA y : y # x)

SeqReplace(s, old, new) == [i \in 1..Len(s) |-> IF s[i] = old THEN new ELSE s[i]]

\* Position of the first occurrence of x in s, 0 when absent.
Position(s, x) == IF Contains(s, x) THEN CHOOSE i \in 1..Len(s) : s[i] = x /\ \A j \in 1..(i - 1) : s[j] # x ELSE 0

\* The elements of a set of integers in ascending order.
RECURSIVE Ascending(_)
Ascending(S) == IF S = {} THEN <<>> ELSE LET m == CHOOSE x \in S : \A y \in S : x <= y IN <<m>> \o Ascending(S \ {m})

RECURSIVE SumSeq(_)
SumSeq(s) == IF s = <<>> THEN 0 ELSE Head(s) + SumSeq(Tail(s))

\* ------------------------------------------------------------ node labels
Vertical == "Vertical"

Horizontal == "Horizontal"

SliceDirection == {Vertical, Horizontal}

Internal(d) == [kind |-> "Internal", dir |-> d]

Leaf(img) == [kind |-> "Leaf", image |-> img]

IsInternal(w) == w.kind = "Internal"

IsLeaf(w) == w.kind = "Leaf"

Dimensions(w, h) == [width |-> w, height |-> h]

\* ------------------------------------------------- petgraph::Graph (0.6)
EmptyGraph == [nodes |-> <<>>, edges |-> <<>>, out |-> <<>>, inn |-> <<>>]

node_count(g) == Len(g.nodes)

edge_count(g) == Len(g.edges)

GraphAddNode(g, w) == [g EXCEPT !.nodes = Append(@, w), !.out = Append(@, <<>>), !.inn = Append(@, <<>>)]

add_edge(g, a, b) == LET e == Len(g.edges) + 1 IN [g EXCEPT !.edges = Append(@, <<a, b>>), !.out[a] = <<e>> \o @, !.inn[b] = <<e>> \o @]

\* Index of the first edge a -> b on a's outgoing list, 0 when there is none.
find_edge(g, a, b) == LET hits == SelectSeq(g.out[a], LAMBDA e : g.edges[e][2] = b) IN IF hits = <<>> THEN 0 ELSE hits[1]

update_edge(g, a, b) == IF find_edge(g, a, b) # 0 THEN g ELSE add_edge(g, a, b)

\* remove_edge unlinks e, then swap_remove moves the last edge into slot e.
remove_edge(g, e) ==
  IF e < 1 \/ e > Len(g.edges) THEN g
  ELSE LET ed == g.edges[e]
           last == Len(g.edges)
           sw == g.edges[last]
           g1 == [g EXCEPT !.out[ed[1]] = SeqRemove(@, e), !.inn[ed[2]] = SeqRemove(@, e)]
           g2 == IF e = last THEN g1
                 ELSE [g1 EXCEPT !.edges[e] = sw, !.out[sw[1]] = SeqReplace(@, last, e), !.inn[sw[2]] = SeqReplace(@, last, e)]
       IN [g2 EXCEPT !.edges = SubSeq(@, 1, last - 1)]

\* Targets of a's outgoing edges, most recently added edge first.
neighbors(g, a) == [i \in 1..Len(g.out[a]) |-> g.edges[g.out[a][i]][2]]

\* Sources of b's incoming edges, most recently added edge first.
neighbors_incoming(g, b) == [i \in 1..Len(g.inn[b]) |-> g.edges[g.inn[b][i]][1]]

\* externals(Incoming) / externals(Outgoing): node indices in ascending order.
externals_incoming(g) == Ascending({i \in 1..Len(g.nodes) : g.inn[i] = <<>>})

externals_outgoing(g) == Ascending({i \in 1..Len(g.nodes) : g.out[i] = <<>>})

RECURSIVE AddEdgesFrom(_, _, _, _)
AddEdgesFrom(g, es, k, newIndex) ==
  IF k > Len(es) THEN g
  ELSE LET s == newIndex[es[k][1]]
           t == newIndex[es[k][2]]
       IN AddEdgesFrom(IF s # 0 /\ t # 0 THEN add_edge(g, s, t) ELSE g, es, k + 1, newIndex)

\* A filter_map that drops nothing.
filter_map_keep(g, removed) == g

\* filter_map with a node map that drops the nodes in `removed` and an edge
\* map that keeps every edge: the kept nodes are re-added in index order
\* (so their indices are compacted), then the edges with both endpoints kept
\* are re-added in edge-index order.
filter_map(g, removed) ==
  LET n == Len(g.nodes)
      kept == Ascending({i \in 1..n : i \notin removed})
      newIndex == [i \in 1..n |-> IF i \in removed THEN 0 ELSE Cardinality({j \in 1..i : j \notin removed})]
      g0 == [nodes |-> [k \in 1..Len(kept) |-> g.nodes[kept[k]]], edges |-> <<>>, out |-> [k \in 1..Len(kept) |-> <<>>], inn |-> [k \in 1..Len(kept) |-> <<>>]]
  IN AddEdgesFrom(g0, g.edges, 1, newIndex)

\* ------------------------------------------------------------------ Layout
NoLayout == [graph |-> EmptyGraph, canvas_dimensions |-> Dimensions(0, 0), none |-> TRUE]

MkLayout(g, canvas) == [graph |-> g, canvas_dimensions |-> canvas, none |-> FALSE]

IsLayout(l) == ~l.none

indexes_of_nodes_with_less_than_two_children(l) == Ascending({i \in 1..Len(l.graph.nodes) : IsInternal(l.graph.nodes[i]) /\ Len(l.graph.out[i]) < 2})

node_has_less_than_two_children(l, idx) == Len(l.graph.out[idx]) < 2

\* An add_node that adds the node without the edge from its parent.
add_node_detached(l, parent_idx, node_label) == [l EXCEPT !.graph = GraphAddNode(@, node_label)]

\* add_node returns the layout; the index of the new node is node_count.
add_node(l, parent_idx, node_label) == LET g1 == GraphAddNode(l.graph, node_label) IN [l EXCEPT !.graph = update_edge(g1, parent_idx, Len(g1.nodes))]

\* root_node: the first node without incoming edge (0 stands for the failed unwrap).
root_node(l) == LET ext == externals_incoming(l.graph) IN IF ext = <<>> THEN 0 ELSE ext[1]

internal_nodes(l) == Ascending({i \in 1..Len(l.graph.nodes) : Len(l.graph.out[i]) = 2})

leaf_nodes(l) == externals_outgoing(l.graph)

node_label(l, i) == l.graph.nodes[i]

\* A children() that takes the first listed neighbour for the left child.
children_as_listed(l, i) == LET nb == neighbors(l.graph, i) IN IF Len(nb) < 2 THEN <<>> ELSE <<nb[1], nb[2]>>

\* children: <<left, right>>, or <<>> for None.  neighbors() lists the most
\* recently added edge first, so the first listed is the right child.
children(l, i) == LET nb == neighbors(l.graph, i) IN IF Len(nb) < 2 THEN <<>> ELSE <<nb[2], nb[1]>>

\* parent_index: source of the first incoming edge, 0 for None.
parent_index(l, i) == LET nb == neighbors_incoming(l.graph, i) IN IF nb = <<>> THEN 0 ELSE nb[1]

child_side(l, parent, node) ==
  LET c == children(l, parent)
  IN IF c = <<>> THEN "None" ELSE IF node = c[1] THEN "Left" ELSE IF node = c[2] THEN "Right" ELSE "None"

other_child(l, parent, node) ==
  LET c == children(l, parent)
  IN IF c = <<>> THEN 0 ELSE IF node = c[1] THEN c[2] ELSE IF node = c[2] THEN c[1] ELSE 0

swap_order_of_children(l, node_index) ==
  LET c == children(l, node_index)
      child_0 == c[1]
      child_1 == c[2]
      child_0_edge == find_edge(l.graph, node_index, child_0)
      child_1_edge == find_edge(l.graph, node_index, child_1)
      g1 == remove_edge(l.graph, child_1_edge)
      g2 == remove_edge(g1, child_0_edge)
      g3 == update_edge(g2, node_index, child_1)
      g4 == update_edge(g3, node_index, child_0)
  IN [l EXCEPT !.graph = g4]

\* LogicalBfs: pop the front of the queue, push its left then right child.
\* `fuel` only keeps the evaluation finite on a graph that is not a tree.
RECURSIVE LogicalBfsRun(_, _, _)
LogicalBfsRun(l, queue, fuel) ==
  IF queue = <<>> \/ fuel = 0 THEN <<>>
  ELSE LET next == Head(queue) IN <<next>> \o LogicalBfsRun(l, Tail(queue) \o children(l, next), fuel - 1)

logical_subtree_bfs_iter(l, index) == LogicalBfsRun(l, <<index>>, 4 * Len(l.graph.nodes) + 4)

logical_bfs_iter(l) == IF node_count(l.graph) = 0 THEN <<>> ELSE logical_subtree_bfs_iter(l, root_node(l))

\* ------------------------------------------------------------- blueprints
\* A direction code that writes "V" for both directions.
DirCodeVertical(d) == "V"

DirCode(d) == IF d = Vertical THEN "V" ELSE "H"

\* A blueprint that lists the internal nodes in the order of their indices.
subtree_to_blueprint_by_index(l, index) ==
  LET ints == SelectSeq(Ascending(Range(logical_subtree_bfs_iter(l, index))), LAMBDA i : IsInternal(node_label(l, i)))
      entry(i) == LET intChildren == SelectSeq(children(l, i), LAMBDA c : IsInternal(node_label(l, c)))
                  IN <<DirCode(node_label(l, i).dir), [k \in 1..Len(intChildren) |-> Position(ints, intChildren[k])]>>
  IN [k \in 1..Len(ints) |-> entry(ints[k])]

subtree_to_blueprint(l, index) ==
  LET bfs == logical_subtree_bfs_iter(l, index)
      ints == SelectSeq(bfs, LAMBDA i : IsInternal(node_label(l, i)))
      entry(i) == LET intChildren == SelectSeq(children(l, i), LAMBDA c : IsInternal(node_label(l, c)))
                  IN <<DirCode(node_label(l, i).dir), [k \in 1..Len(intChildren) |-> Position(ints, intChildren[k])]>>
  IN [k \in 1..Len(ints) |-> entry(ints[k])]

to_blueprint(l) == [graph_representation |-> subtree_to_blueprint(l, root_node(l)), width |-> l.canvas_dimensions.width, height |-> l.canvas_dimensions.height]

RECURSIVE AddBlueprintNodes(_, _, _)
AddBlueprintNodes(g, rep, k) ==
  IF k > Len(rep) THEN g
  ELSE AddBlueprintNodes(GraphAddNode(g, Internal(IF rep[k][1] = "V" THEN Vertical ELSE Horizontal)), rep, k + 1)

\* Blueprint edges that take the children of every entry in reverse order.
RECURSIVE BlueprintEdgesReversed(_, _)
BlueprintEdgesReversed(rep, k) ==
  IF k > Len(rep) THEN <<>>
  ELSE [j \in 1..Len(rep[k][2]) |-> <<k, rep[k][2][Len(rep[k][2]) + 1 - j]>>] \o BlueprintEdgesReversed(rep, k + 1)

\* The edges of the blueprint in the order the two nested loops visit them.
RECURSIVE BlueprintEdges(_, _)
BlueprintEdges(rep, k) == IF k > Len(rep) THEN <<>> ELSE [j \in 1..Len(rep[k][2]) |-> <<k, rep[k][2][j]>>] \o BlueprintEdges(rep, k + 1)

RECURSIVE UpdateEdges(_, _, _)
UpdateEdges(g, es, k) == IF k > Len(es) THEN g ELSE UpdateEdges(update_edge(g, es[k][1], es[k][2]), es, k + 1)

\* A leaf filling loop that stops without a failure when the images run out.
RECURSIVE FillLeavesLenient(_, _, _)
FillLeavesLenient(l, idxs, imgs) ==
  IF idxs = <<>> \/ imgs = <<>> THEN [layout |-> l, rest |-> imgs, ran_out |-> FALSE]
  ELSE IF ~node_has_less_than_two_children(l, Head(idxs)) THEN FillLeavesLenient(l, Tail(idxs), imgs)
  ELSE FillLeavesLenient(add_node(l, Head(idxs), Leaf(Head(imgs))), idxs, Tail(imgs))

\* The leaf filling loop shared by new, from_blueprint: for every listed
\* index, while it has less than two children, attach the next image.
\* Yields the layout, the unused images and whether the images ran out.
RECURSIVE FillLeaves(_, _, _)
FillLeaves(l, idxs, imgs) ==
  IF idxs = <<>> THEN [layout |-> l, rest |-> imgs, ran_out |-> FALSE]
  ELSE IF ~node_has_less_than_two_children(l, Head(idxs)) THEN FillLeaves(l, Tail(idxs), imgs)
  ELSE IF imgs = <<>> THEN [layout |-> l, rest |-> imgs, ran_out |-> TRUE]
  ELSE FillLeaves(add_node(l, Head(idxs), Leaf(Head(imgs))), idxs, Tail(imgs))

Ok(l) == [ok |-> TRUE, layout |-> l, err |-> "", panic |-> FALSE]

Err(msg) == [ok |-> FALSE, layout |-> NoLayout, err |-> msg, panic |-> FALSE]

Panic(msg) == [ok |-> FALSE, layout |-> NoLayout, err |-> msg, panic |-> TRUE]

\* A from_blueprint that reads every code other than "V" as Horizontal.
from_blueprint_lenient(blueprint, imgs) ==
  LET rep == blueprint.graph_representation
      l2 == MkLayout(UpdateEdges(AddBlueprintNodes(EmptyGraph, rep, 1), BlueprintEdges(rep, 1), 1), Dimensions(blueprint.width, blueprint.height))
      filled == FillLeaves(l2, indexes_of_nodes_with_less_than_two_children(l2), imgs)
  IN IF filled.ran_out THEN Err("Ran out of images") ELSE Ok(filled.layout)

from_blueprint(blueprint, imgs) ==
  LET rep == blueprint.graph_representation
      canvas == Dimensions(blueprint.width, blueprint.height)
      g1 == AddBlueprintNodes(EmptyGraph, rep, 1)
      es == BlueprintEdges(rep, 1)
      g2 == UpdateEdges(g1, es, 1)
      l2 == MkLayout(g2, canvas)
      filled == FillLeaves(l2, indexes_of_nodes_with_less_than_two_children(l2), imgs)
      unknown == {k \in 1..Len(rep) : rep[k][1] \notin {"V", "H"}}
      firstUnknown == CHOOSE k \in unknown : \A j \in unknown : k <= j
  IN IF unknown # {} THEN Err("Unknown label in graph representation: \"" \o rep[firstUnknown][1] \o "\"")
     ELSE IF \E k \in 1..Len(es) : es[k][2] \notin 1..Len(rep) THEN Panic("index out of bounds")
     ELSE IF filled.ran_out THEN Err("Ran out of images")
     ELSE Ok(filled.layout)

\* ---------------------------------------------------------- logical_eq
ChildrenLabels(l, i) == LET c == children(l, i) IN IF c = <<>> THEN <<>> ELSE <<node_label(l, c[1]), node_label(l, c[2])>>

\* A logical_eq that does not look at the canvas dimensions.
logical_eq_any_canvas(a, b) ==
  LET sa == logical_bfs_iter(a)
      sb == logical_bfs_iter(b)
      m == Min(Len(sa), Len(sb))
  IN IF node_count(a.graph) # node_count(b.graph) THEN "UnevenNumberOfNodes"
     ELSE IF edge_count(a.graph) # edge_count(b.graph) THEN "UnevenNumberOfEdges"
     ELSE IF sa # <<>> /\ sb # <<>> /\ node_label(a, sa[1]) # node_label(b, sb[1]) THEN "RootNodesHaveDifferentLabels"
     ELSE IF \E k \in 1..m : ChildrenLabels(a, sa[k]) # ChildrenLabels(b, sb[k]) THEN "ChildrenHaveDifferentLabels"
     ELSE IF Len(sa) # Len(sb) THEN "unreachable"
     ELSE "Ok"

\* logical_eq: "Ok" or the name of the LogicalEqError; "unreachable" when the
\* two traversals end at different lengths.
logical_eq(a, b) ==
  LET sa == logical_bfs_iter(a)
      sb == logical_bfs_iter(b)
      m == Min(Len(sa), Len(sb))
  IN IF a.canvas_dimensions # b.canvas_dimensions THEN "DifferentCanvasDimensions"
     ELSE IF node_count(a.graph) # node_count(b.graph) THEN "UnevenNumberOfNodes"
     ELSE IF edge_count(a.graph) # edge_count(b.graph) THEN "UnevenNumberOfEdges"
     ELSE IF sa # <<>> /\ sb # <<>> /\ node_label(a, sa[1]) # node_label(b, sb[1]) THEN "RootNodesHaveDifferentLabels"
     ELSE IF \E k \in 1..m : ChildrenLabels(a, sa[k]) # ChildrenLabels(b, sb[k]) THEN "ChildrenHaveDifferentLabels"
     ELSE IF Len(sa) # Len(sb) THEN "unreachable"
     ELSE "Ok"

LayoutEq(a, b) == logical_eq(a, b) = "Ok"

\* ------------------------------------------------------------ Layout::new
\* The images of a run: pairwise distinct contents, widths and heights in 1..2.
Img(i) == [width |-> 1 + (i % 2), height |-> 1 + ((i \div 2) % 2), px |-> i]

ImageList(n) == [i \in 1..n |-> Img(i)]

\* calculate_random_canvas_dimensions: the widths of len_for_width distinct
\* images and the heights of len_for_height distinct images are summed; the
\* two lengths are explored up to `pick`.
CanvasChoices(imgs, pick) ==
  LET n == Len(imgs)
      samples == {S \in SUBSET (1..n) : Cardinality(S) >= 1 /\ Cardinality(S) <= Min(n, pick)}
      total(S, f) == SumSeq([k \in 1..Cardinality(S) |-> imgs[Ascending(S)[k]][f]])
  IN {Dimensions(total(W, "width"), total(H, "height")) : W \in samples, H \in samples}

\* choose_multiple(rng, len): the orders in which all images can be drawn,
\* explored up to a displacement of `shift` - 1 positions per image.
RECURSIVE ShuffleOrders(_, _, _)
ShuffleOrders(n, shift, prefix) ==
  IF Len(prefix) = n THEN {prefix}
  ELSE LET pos == Len(prefix) + 1
           cand == {y \in 1..n : ~Contains(prefix, y) /\ y - pos < shift /\ pos - y < shift}
       IN UNION {ShuffleOrders(n, shift, Append(prefix, y)) : y \in cand}

\* The loop that adds images.len() - 2 internal nodes, each under a randomly
\* chosen internal node with less than two children (the choice is explored
\* among the first `attach` candidates) and with a random direction.
RECURSIVE AddInternals(_, _, _)
AddInternals(l, k, attach) ==
  IF k = 0 THEN {l}
  ELSE LET cand == indexes_of_nodes_with_less_than_two_children(l)
       IN UNION {AddInternals(add_node(l, cand[c], Internal(d)), k - 1, attach) : c \in 1..Min(Len(cand), attach), d \in SliceDirection}

\* A Layout::new that returns an error value for fewer than two images.
NewOutcomesErr(imgs, attach, shift, pick) ==
  IF Len(imgs) < 2 THEN {Err("Attempted to create a layout with less than two images")}
  ELSE LET n == Len(imgs)
           roots == {MkLayout(GraphAddNode(EmptyGraph, Internal(d)), canvas) : d \in SliceDirection, canvas \in CanvasChoices(imgs, pick)}
           skeletons == UNION {AddInternals(r, n - 2, attach) : r \in roots}
           fill(l, order) == FillLeaves(l, indexes_of_nodes_with_less_than_two_children(l), [k \in 1..n |-> imgs[order[k]]])
       IN {IF fill(l, order).ran_out THEN Panic("Ran out of images") ELSE Ok(fill(l, order).layout) : l \in skeletons, order \in ShuffleOrders(n, shift, <<>>)}

\* The outcomes of Layout::new(images, rng) over the explored random draws.
NewOutcomes(imgs, attach, shift, pick) ==
  IF Len(imgs) < 2 THEN {Panic("Attempted to create a layout with less than two images")}
  ELSE LET n == Len(imgs)
           roots == {MkLayout(GraphAddNode(EmptyGraph, Internal(d)), canvas) : d \in SliceDirection, canvas \in CanvasChoices(imgs, pick)}
           skeletons == UNION {AddInternals(r, n - 2, attach) : r \in roots}
           fill(l, order) == FillLeaves(l, indexes_of_nodes_with_less_than_two_children(l), [k \in 1..n |-> imgs[order[k]]])
       IN {IF fill(l, order).ran_out THEN Panic("Ran out of images") ELSE Ok(fill(l, order).layout) : l \in skeletons, order \in ShuffleOrders(n, shift, <<>>)}

\* -------------------------------------------------------------- mutations
\* A swap that copies the weight of b over a and leaves b as it is.
SwapLabelsCopy(l, a, b) == [l EXCEPT !.graph.nodes = [@ EXCEPT ![a] = l.graph.nodes[b]]]

\* Swaps the weights of two distinct nodes (index_twice_mut).
SwapLabels(l, a, b) == [l EXCEPT !.graph.nodes = [@ EXCEPT ![a] = l.graph.nodes[b], ![b] = l.graph.nodes[a]]]

\* The leaf branch of swap_with_random_node: any other leaf is chosen.
SwapLeafOutcomes(l, leaf_index) == {SwapLabels(l, leaf_index, other) : other \in {i \in Range(leaf_nodes(l)) : i # leaf_index}}

\* A swap that does nothing when no internal node has a different label.
swap_without_fallback(l, random_node_index) ==
  LET random_node_label == node_label(l, random_node_index)
      others == {i \in Range(internal_nodes(l)) : node_label(l, i) # random_node_label}
  IN IF IsInternal(random_node_label)
     THEN IF others # {} THEN {SwapLabels(l, random_node_index, other) : other \in others} ELSE {l}
     ELSE SwapLeafOutcomes(l, random_node_index)

\* A swap of an internal node with any other internal node.
swap_with_any_internal_node(l, random_node_index) ==
  LET others == {i \in Range(internal_nodes(l)) : i # random_node_index}
  IN IF IsInternal(node_label(l, random_node_index))
     THEN IF others # {} THEN {SwapLabels(l, random_node_index, other) : other \in others}
          ELSE UNION {SwapLeafOutcomes(l, leaf) : leaf \in Range(leaf_nodes(l))}
     ELSE SwapLeafOutcomes(l, random_node_index)

\* swap_with_random_node(rng, random_node_index): an internal node swaps
\* with any internal node of a different label; when there is none the
\* call restarts from a random leaf.
swap_with_random_node(l, random_node_index) ==
  LET random_node_label == node_label(l, random_node_index)
      others == {i \in Range(internal_nodes(l)) : node_label(l, i) # random_node_label}
  IN IF IsInternal(random_node_label)
     THEN IF others # {} THEN {SwapLabels(l, random_node_index, other) : other \in others}
          ELSE UNION {SwapLeafOutcomes(l, leaf) : leaf \in Range(leaf_nodes(l))}
     ELSE SwapLeafOutcomes(l, random_node_index)

swap_random_node_pair(l) == UNION {swap_with_random_node(l, i) : i \in 1..node_count(l.graph)}

\* `as u32` on an i64: the value modulo the word size.
i64_as_u32(x) == x % U32Modulus

\* randomize_width with the value gen_range returned.
randomize_width_by(l, d) == [l EXCEPT !.canvas_dimensions.width = i64_as_u32(l.canvas_dimensions.width + d)]

\* randomize_height with the value gen_range returned.
randomize_height_by(l, d) == [l EXCEPT !.canvas_dimensions.height = i64_as_u32(l.canvas_dimensions.height + d)]

\* randomize_width: width + gen_range(-width + 1 ..= 2 * height), cast to
\* u32.  The empty set stands for the panic of gen_range on an empty range.
randomize_width(l) ==
  {randomize_width_by(l, d) : d \in (1 - l.canvas_dimensions.width)..(2 * l.canvas_dimensions.height)}

randomize_height(l) ==
  {randomize_height_by(l, d) : d \in (1 - l.canvas_dimensions.height)..(2 * l.canvas_dimensions.width)}

\* The factors of gen_range(0.5..=1.5) explored: the multiples n / FactorSteps
\* inside the range.
Factors == {n \in 0..(2 * FactorSteps) : 2 * n >= FactorSteps /\ 2 * n <= 3 * FactorSteps}

\* (x as f64 * factor) as u32 for factor = n / FactorSteps: truncation.
Scaled(x, n) == (x * n) \div FactorSteps

randomize_dimensions_by_equal_factor(l) ==
  {[l EXCEPT !.canvas_dimensions = Dimensions(Scaled(l.canvas_dimensions.width, n), Scaled(l.canvas_dimensions.height, n))] : n \in Factors}

\* -------------------------------------------------------------- crossover
\* Nodes reachable from i along edges.
RECURSIVE ReachFrom(_, _, _)
ReachFrom(l, frontier, seen) ==
  IF frontier = {} THEN seen
  ELSE LET nxt == {l.graph.edges[e][2] : e \in UNION {Range(l.graph.out[i]) : i \in frontier}} \ (seen \cup frontier)
       IN ReachFrom(l, nxt, seen \cup frontier)

\* Bfs::new(&graph, node) counting the Leaf nodes it visits.
LeafCountUnder(l, i) == Cardinality({j \in ReachFrom(l, {i}, {}) : IsLeaf(node_label(l, j))})

\* Subtree::new for each of the listed nodes.
WithLeafCount(l, roots) == [k \in 1..Len(roots) |-> [index |-> roots[k], leaf_node_count |-> LeafCountUnder(l, roots[k])]]

\* A subtrees() that also lists the subtrees of two leaves.
subtrees_of_two_leaves(l) == SelectSeq(WithLeafCount(l, internal_nodes(l)), LAMBDA s : s.leaf_node_count >= 2)

\* subtrees(): the internal nodes, in index order, whose subtree holds at
\* least three leaves, each with its leaf_node_count.
subtrees(l) == SelectSeq(WithLeafCount(l, internal_nodes(l)), LAMBDA s : s.leaf_node_count >= 3)

\* The cartesian product of two lists of subtrees filtered by equal leaf count.
EqualCountPairs(mine, theirs) ==
  {<<mine[p[1]].index, theirs[p[2]].index>> : p \in {q \in (1..Len(mine)) \X (1..Len(theirs)) : mine[q[1]].leaf_node_count = theirs[q[2]].leaf_node_count}}

subtree_pairs(l, other) == EqualCountPairs(subtrees(l), subtrees(other))

RECURSIVE AddSkeletonNodes(_, _, _)
AddSkeletonNodes(g, rep, k) ==
  IF k > Len(rep) THEN g
  ELSE AddSkeletonNodes(GraphAddNode(g, Internal(IF rep[k][1] = "V" THEN Vertical ELSE Horizontal)), rep, k + 1)

\* The blueprint's (parent, child) pairs as indices of the new nodes, which
\* follow the `base` nodes the graph had.
SkeletonEdges(es, base) == [k \in 1..Len(es) |-> <<base + es[k][1], base + es[k][2]>>]

\* swap_subtree, first part: one new internal node per blueprint entry, then
\* update_edge for every (parent, child) pair of the blueprint.
add_skeleton(self, subtree_blueprint) ==
  [self EXCEPT !.graph = UpdateEdges(AddSkeletonNodes(@, subtree_blueprint, 1), SkeletonEdges(BlueprintEdges(subtree_blueprint, 1), node_count(@)), 1)]

\* self_subtree_leaf_indices: the leaves of the old subtree in logical
\* breadth-first order.
self_subtree_leaf_indices(l, self_index) == SelectSeq(logical_subtree_bfs_iter(l, self_index), LAMBDA i : IsLeaf(node_label(l, i)))

\* self_subtree_internal_indices: the internal nodes of the old subtree.
self_subtree_internal_indices(l, self_index) == SelectSeq(logical_subtree_bfs_iter(l, self_index), LAMBDA i : IsInternal(node_label(l, i)))

\* A fill that gives every listed index one old leaf at most, without the
\* while loop.
RECURSIVE FillFromLeavesOnce(_, _, _)
FillFromLeavesOnce(l, idxs, leaves) ==
  IF idxs = <<>> THEN [layout |-> l, rest |-> leaves, ran_out |-> FALSE]
  ELSE IF ~node_has_less_than_two_children(l, Head(idxs)) THEN FillFromLeavesOnce(l, Tail(idxs), leaves)
  ELSE IF leaves = <<>> THEN [layout |-> l, rest |-> leaves, ran_out |-> TRUE]
  ELSE FillFromLeavesOnce([l EXCEPT !.graph = update_edge(@, Head(idxs), Head(leaves))], Tail(idxs), Tail(leaves))

\* "Fill leaf nodes in new subtree": for every listed index, while it has
\* less than two children, update_edge(index, next old leaf).
RECURSIVE FillFromLeaves(_, _, _)
FillFromLeaves(l, idxs, leaves) ==
  IF idxs = <<>> THEN [layout |-> l, rest |-> leaves, ran_out |-> FALSE]
  ELSE IF ~node_has_less_than_two_children(l, Head(idxs)) THEN FillFromLeaves(l, Tail(idxs), leaves)
  ELSE IF leaves = <<>> THEN [layout |-> l, rest |-> leaves, ran_out |-> TRUE]
  ELSE FillFromLeaves([l EXCEPT !.graph = update_edge(@, Head(idxs), Head(leaves))], idxs, Tail(leaves))

\* "Connect new subtree to parent node" (parent 0 stands for None).
connect_to_parent(l, parent, new_root) == IF parent # 0 THEN [l EXCEPT !.graph = update_edge(@, parent, new_root)] ELSE l

\* "Remove leftover old nodes".
remove_leftover(l, removed) == [l EXCEPT !.graph = filter_map(@, removed)]

\* The closing swap_order_of_children(parent_index) when the replaced node
\* was the left child; parent_index is the index taken before filter_map.
restore_side(l, parent, subtree_root_side) ==
  IF subtree_root_side # "Left" THEN Ok(l)
  ELSE IF parent > node_count(l.graph) \/ children(l, parent) = <<>> THEN Panic("called Option::unwrap() on a None value")
  ELSE Ok(swap_order_of_children(l, parent))

\* swap_subtree from "Connect new subtree to parent node" on.
reattach(l, parent, removed, new_root, self_index, blueprint_len) ==
  IF parent # 0 /\ blueprint_len = 0 THEN Panic("index out of bounds")
  ELSE restore_side(remove_leftover(connect_to_parent(l, parent, new_root), removed), parent, IF parent = 0 THEN "None" ELSE child_side(l, parent, self_index))

\* swap_subtree after the leaf filling loop, which panics when the old
\* subtree has too few leaves.
after_fill(filled, removed, new_root, self_index, blueprint_len) ==
  IF filled.ran_out THEN Panic("Ran out of leaf nodes")
  ELSE reattach(filled.layout, parent_index(filled.layout, self_index), removed, new_root, self_index, blueprint_len)

\* swap_subtree once the new skeleton is in the graph.
splice(l, new_root, self_index, blueprint_len) ==
  after_fill(FillFromLeaves(l, indexes_of_nodes_with_less_than_two_children(l), self_subtree_leaf_indices(l, self_index)),
             Range(self_subtree_internal_indices(l, self_index)), new_root, self_index, blueprint_len)

\* With the blueprint of other's subtree at hand.
swap_subtree_with(self, subtree_blueprint, self_index) ==
  splice(add_skeleton(self, subtree_blueprint), node_count(self.graph) + 1, self_index, Len(subtree_blueprint))

\* swap_subtree(other, self_index, other_index): the outcome holds the new
\* layout, or the panic the call ends with.
swap_subtree(self, other, self_index, other_index) == swap_subtree_with(self, subtree_to_blueprint(other, other_index), self_index)

\* A crossover that hands the two offspring back in the wrong order.
crossover_subtrees_swapped(self, other, pair) ==
  [self |-> swap_subtree(other, self, pair[2], pair[1]), other |-> swap_subtree(self, other, pair[1], pair[2])]

\* crossover_subtrees: self takes other's subtree, then other takes the
\* subtree of the clone of self made before the first splice.
crossover_subtrees(self, other, pair) ==
  [self |-> swap_subtree(self, other, pair[1], pair[2]), other |-> swap_subtree(other, self, pair[2], pair[1])]

\* ------------------------------------------------------ structure queries
InDegree(l, i) == Len(l.graph.inn[i])

OutDegree(l, i) == Len(l.graph.out[i])

Nodes(l) == 1..Len(l.graph.nodes)

LeafLabelled(l) == {i \in Nodes(l) : IsLeaf(node_label(l, i))}

InternalLabelled(l) == {i \in Nodes(l) : IsInternal(node_label(l, i))}

\* A rooted strict binary tree: one node without incoming edge, one parent
\* for every other node, two children for every internal-labelled node,
\* none for a leaf, edge count = node count - 1, all nodes under the root.
IsStrictBinaryTree(l) ==
  /\ IsLayout(l)
  /\ Len(l.graph.nodes) >= 1
  /\ Cardinality({i \in Nodes(l) : InDegree(l, i) = 0}) = 1
  /\ \A i \in Nodes(l) : InDegree(l, i) <= 1
  /\ \A i \in InternalLabelled(l) : OutDegree(l, i) = 2 /\ Cardinality(Range(neighbors(l.graph, i))) = 2
  /\ \A i \in LeafLabelled(l) : OutDegree(l, i) = 0
  /\ Len(l.graph.edges) = Len(l.graph.nodes) - 1
  /\ ReachFrom(l, {root_node(l)}, {}) = Nodes(l)

\* The images of the leaves in leaf_nodes() order (ascending node index).
LeafImages(l) == [k \in 1..Len(leaf_nodes(l)) |-> node_label(l, leaf_nodes(l)[k]).image]

\* A breadth-first listing that goes by node index instead.
LeafImagesByIndex(l) == [k \in 1..Len(leaf_nodes(l)) |-> node_label(l, leaf_nodes(l)[k]).image]

\* The images of the leaves in logical breadth-first order from the root.
LeafImagesBfs(l) ==
  LET ls == SelectSeq(logical_bfs_iter(l), LAMBDA i : IsLeaf(node_label(l, i)))
  IN [k \in 1..Len(ls) |-> node_label(l, ls[k]).image]

\* ----------------------------------------------------------------- actions
NoOp == [name |-> "init"]

Init ==
  /\ images \in {ImageList(n) : n \in 0..MaxImages}
  /\ A = NoLayout
  /\ B = NoLayout
  /\ op = NoOp
  /\ pre = <<NoLayout, NoLayout>>
  /\ out = Ok(NoLayout)
  /\ hist = <<>>

\* Layout::new(images, rng) into slot A.
New ==
  /\ hist = <<>>
  /\ \E o \in NewOutcomes(images, MaxAttach, MaxShift, MaxPick) :
       /\ out' = o
       /\ A' = o.layout
       /\ hist' = IF o.ok THEN <<"new">> ELSE <<"failed">>
  /\ op' = [name |-> "new"]
  /\ pre' = <<A, B>>
  /\ UNCHANGED <<images, B>>

\* The blueprints handed to from_blueprint: up to MaxEntries entries, each
\* with a direction code (one of them unknown) and up to two child indices
\* that refer to later entries.
DirectionCodes == {"V", "H", "X"}

ChildLists(k, m) == {<<>>} \cup {<<a>> : a \in (k + 1)..m} \cup {<<a, b>> : a \in (k + 1)..m, b \in (k + 1)..m}

RepresentationsOf(m) == {rep \in [1..m -> DirectionCodes \X UNION {ChildLists(k, m) : k \in 1..m}] : \A k \in 1..m : rep[k][2] \in ChildLists(k, m)}

BlueprintInputs == UNION {{[graph_representation |-> rep, width |-> 2, height |-> 1] : rep \in RepresentationsOf(m)} : m \in 0..MaxEntries}

\* Layout::from_blueprint(blueprint, images[..k]) into slot A, as
\* render_specific_layout does with the caller's blueprint and images.
FromBlueprint ==
  /\ hist = <<>>
  /\ \E bp \in BlueprintInputs, k \in 0..Len(images) :
       LET r == from_blueprint(bp, SubSeq(images, 1, k))
       IN /\ out' = r
          /\ A' = r.layout
          /\ hist' = IF r.ok THEN <<"from_blueprint">> ELSE <<"failed">>
          /\ op' = [name |-> "from_blueprint", blueprint |-> bp, count |-> k]
  /\ pre' = <<A, B>>
  /\ UNCHANGED <<images, B>>

\* swap_order_of_children(node) on a layout decoded from a blueprint (the
\* function unwraps children(), so the node has two children).
SwapOrderOfChildren ==
  /\ hist # <<>> /\ hist[1] = "from_blueprint" /\ Len(hist) < MaxSteps
  /\ IsStrictBinaryTree(A)
  /\ \E node \in Range(internal_nodes(A)) :
       /\ A' = swap_order_of_children(A, node)
       /\ op' = [name |-> "swap_order_of_children", node |-> node]
  /\ hist' = Append(hist, "swap_order_of_children")
  /\ pre' = <<A, B>>
  /\ out' = Ok(NoLayout)
  /\ UNCHANGED <<images, B>>

\* to_blueprint followed by from_blueprint, with the leaf images listed in
\* leaf_nodes() order ("index"), as the caller's slice ("slice") or in
\* logical breadth-first order ("bfs").  The decoded layout goes to `out`.
ImageOrders == {"index", "slice", "bfs"}

ImagesInOrder(l, order) == IF order = "index" THEN LeafImages(l) ELSE IF order = "slice" THEN images ELSE LeafImagesBfs(l)

RoundTrip ==
  /\ IsStrictBinaryTree(A)
  /\ \E order \in ImageOrders :
       /\ out' = from_blueprint(to_blueprint(A), ImagesInOrder(A, order))
       /\ op' = [name |-> "round_trip", order |-> order, blueprint |-> to_blueprint(A)]
  /\ pre' = <<A, B>>
  /\ UNCHANGED <<images, A, B, hist>>

Next == New \/ FromBlueprint \/ SwapOrderOfChildren \/ RoundTrip

Spec == Init /\ [][Next]_vars

\* ------------------------------------------------- population and mutation
Slots == {"A", "B"}

Slot(s) == IF s = "A" THEN A ELSE B

Put(s, l) == IF s = "A" THEN A' = l /\ UNCHANGED B ELSE B' = l /\ UNCHANGED A

CanvasWithin(l) == l.canvas_dimensions.width <= MaxCanvas /\ l.canvas_dimensions.height <= MaxCanvas

\* LayoutMutation::mutate, arm 0: swap_random_node_pair on one layout.
SwapRandomNodePair(s) ==
  /\ IsLayout(Slot(s)) /\ Len(hist) < MaxSteps + 1
  /\ \E random_node_index \in 1..node_count(Slot(s).graph) :
       /\ \E l \in swap_with_random_node(Slot(s), random_node_index) : Put(s, l)
       /\ op' = [name |-> "swap_random_node_pair", slot |-> s, index |-> random_node_index]
  /\ hist' = Append(hist, "swap_random_node_pair")
  /\ pre' = <<A, B>>
  /\ out' = Ok(NoLayout)
  /\ UNCHANGED images

\* LayoutMutation::mutate, arm 1.
RandomizeWidth(s) ==
  /\ IsLayout(Slot(s)) /\ Len(hist) < MaxSteps + 1
  /\ \E l \in randomize_width(Slot(s)) : CanvasWithin(l) /\ Put(s, l)
  /\ op' = [name |-> "randomize_width", slot |-> s]
  /\ hist' = Append(hist, "randomize_width")
  /\ pre' = <<A, B>>
  /\ out' = Ok(NoLayout)
  /\ UNCHANGED images

\* LayoutMutation::mutate, arm 2.
RandomizeHeight(s) ==
  /\ IsLayout(Slot(s)) /\ Len(hist) < MaxSteps + 1
  /\ \E l \in randomize_height(Slot(s)) : CanvasWithin(l) /\ Put(s, l)
  /\ op' = [name |-> "randomize_height", slot |-> s]
  /\ hist' = Append(hist, "randomize_height")
  /\ pre' = <<A, B>>
  /\ out' = Ok(NoLayout)
  /\ UNCHANGED images

\* LayoutMutation::mutate, arm 3.
RandomizeDimensionsByEqualFactor(s) ==
  /\ IsLayout(Slot(s)) /\ Len(hist) < MaxSteps + 1
  /\ \E l \in randomize_dimensions_by_equal_factor(Slot(s)) : CanvasWithin(l) /\ Put(s, l)
  /\ op' = [name |-> "randomize_dimensions_by_equal_factor", slot |-> s]
  /\ hist' = Append(hist, "randomize_dimensions_by_equal_factor")
  /\ pre' = <<A, B>>
  /\ out' = Ok(NoLayout)
  /\ UNCHANGED images

InitMutate ==
  /\ images \in {ImageList(n) : n \in 2..MaxMutImages}
  /\ A = NoLayout
  /\ B = NoLayout
  /\ op = NoOp
  /\ pre = <<NoLayout, NoLayout>>
  /\ out = Ok(NoLayout)
  /\ hist = <<>>

NextMutate == New \/ SwapRandomNodePair("A") \/ RandomizeWidth("A") \/ RandomizeHeight("A") \/ RandomizeDimensionsByEqualFactor("A")

SpecMutate == InitMutate /\ [][NextMutate]_vars

\* -------------------------------------------------------------- crossover
\* n images of equal size and pairwise distinct contents.
SquareImageList(n) == [i \in 1..n |-> [width |-> 1, height |-> 1, px |-> i]]

\* The initial population of algorithm::generate_layout, two individuals of
\* it: Layout::new for each.
InitialPopulation ==
  /\ hist = <<>>
  /\ \E a \in NewOutcomes(images, PopAttach, PopShift, PopPick), b \in NewOutcomes(images, PopAttach, PopShift, PopPick) :
       /\ a.ok /\ b.ok
       /\ A' = a.layout
       /\ B' = b.layout
  /\ op' = [name |-> "initial_population"]
  /\ hist' = <<"new">>
  /\ pre' = <<A, B>>
  /\ out' = Ok(NoLayout)
  /\ UNCHANGED images

\* Selection hands out clones: slot `to` becomes a clone of slot `from`.
CloneInto(from, to) ==
  /\ from # to /\ IsLayout(Slot(from)) /\ Slot(to) # Slot(from)
  /\ Put(to, Slot(from))
  /\ op' = [name |-> "clone", slot |-> to]
  /\ pre' = <<A, B>>
  /\ out' = Ok(NoLayout)
  /\ UNCHANGED <<images, hist>>

\* The two offspring of crossover_subtrees take the parents' places.
Offspring(r, pair) ==
  /\ A' = IF r.self.ok THEN r.self.layout ELSE A
  /\ B' = IF r.other.ok THEN r.other.layout ELSE B
  /\ op' = [name |-> "crossover", chosen |-> TRUE, pair |-> pair]
  /\ out' = IF ~r.self.ok THEN r.self ELSE IF ~r.other.ok THEN r.other ELSE Ok(NoLayout)

\* crossover_random_subtrees picks any pair of subtree_pairs, or returns
\* without a change when there is none.
crossover_random_subtrees(pairs) ==
  IF pairs = {}
  THEN /\ UNCHANGED <<A, B>>
       /\ op' = [name |-> "crossover", chosen |-> FALSE, pair |-> <<0, 0>>]
       /\ out' = Ok(NoLayout)
  ELSE \E pair \in pairs : Offspring(crossover_subtrees(A, B, pair), pair)

\* LayoutCrossover::crossover on the clones of the two parents.
Crossover ==
  /\ IsLayout(A) /\ IsLayout(B) /\ Len(hist) < MaxSteps + 1
  /\ crossover_random_subtrees(subtree_pairs(A, B))
  /\ hist' = Append(hist, "crossover")
  /\ pre' = <<A, B>>
  /\ UNCHANGED images

InitCross ==
  /\ images \in {SquareImageList(n) : n \in 2..MaxCrossImages}
  /\ A = NoLayout
  /\ B = NoLayout
  /\ op = NoOp
  /\ pre = <<NoLayout, NoLayout>>
  /\ out = Ok(NoLayout)
  /\ hist = <<>>

Mutation(s) == SwapRandomNodePair(s) \/ RandomizeWidth(s) \/ RandomizeHeight(s) \/ RandomizeDimensionsByEqualFactor(s)

NextCross == InitialPopulation \/ Crossover \/ CloneInto("A", "B") \/ CloneInto("B", "A") \/ Mutation("A") \/ Mutation("B")

SpecCross == InitCross /\ [][NextCross]_vars

\* ---------------------------------------------------------------- lineage
\* Layout::new for one individual; the other individuals descend from it.
Founder ==
  /\ hist = <<>>
  /\ \E a \in NewOutcomes(images, PopAttach, PopShift, PopPick) :
       /\ a.ok
       /\ A' = a.layout
  /\ op' = [name |-> "new"]
  /\ hist' = <<"new">>
  /\ pre' = <<A, B>>
  /\ out' = Ok(NoLayout)
  /\ UNCHANGED <<images, B>>

InitLineage ==
  /\ images \in {SquareImageList(n) : n \in 5..MaxLineageImages}
  /\ A = NoLayout
  /\ B = NoLayout
  /\ op = NoOp
  /\ pre = <<NoLayout, NoLayout>>
  /\ out = Ok(NoLayout)
  /\ hist = <<>>

NextLineage == Founder \/ CloneInto("A", "B") \/ CloneInto("B", "A") \/ Crossover

SpecLineage == InitLineage /\ [][NextLineage]_vars

\* ------------------------------------------------------------ entrypoints
\* algorithm::generate_layout: the initial population calls Layout::new, which
\* panics for fewer than two images; otherwise the best genome is returned,
\* an individual of the kind Layout::new builds (the generations in between
\* are the steps of SpecCross).
SearchGenerateLayout ==
  /\ hist = <<>>
  /\ \E o \in NewOutcomes(images, PopAttach, PopShift, PopPick) :
       /\ out' = o
       /\ A' = o.layout
       /\ hist' = IF o.ok THEN <<"search">> ELSE <<"failed">>
  /\ op' = [name |-> "search_generate_layout"]
  /\ pre' = <<A, B>>
  /\ UNCHANGED <<images, B>>

\* lib.rs generate_layout: more than two images go through the search and
\* the renderer; otherwise images.split_at_mut(2) is evaluated, which panics
\* when there are fewer than two images, and two images are combined
\* directly without a layout.
HostGenerateLayout ==
  /\ hist = <<>>
  /\ IF Len(images) > 2
     THEN \E o \in NewOutcomes(images, PopAttach, PopShift, PopPick) :
            /\ out' = o
            /\ A' = o.layout
            /\ hist' = IF o.ok THEN <<"host">> ELSE <<"failed">>
     ELSE IF Len(images) = 2
     THEN /\ out' = Ok(NoLayout)
          /\ A' = NoLayout
          /\ hist' = <<"host">>
     ELSE /\ out' = Panic("mid > len")
          /\ A' = NoLayout
          /\ hist' = <<"failed">>
  /\ op' = [name |-> "host_generate_layout"]
  /\ pre' = <<A, B>>
  /\ UNCHANGED <<images, B>>

NextEntry == New \/ SearchGenerateLayout \/ HostGenerateLayout

SpecEntry == Init /\ [][NextEntry]_vars

\* ------------------------------------------------------------- comparison
\* layout_1 == layout_2 (PartialEq for Layout), the outcome of logical_eq kept.
Compare ==
  /\ IsLayout(A) /\ IsLayout(B)
  /\ op' = [name |-> "logical_eq", result |-> logical_eq(A, B), eq |-> LayoutEq(A, B)]
  /\ pre' = <<A, B>>
  /\ out' = Ok(NoLayout)
  /\ UNCHANGED <<images, A, B, hist>>

InitCompare ==
  /\ images \in {ImageList(n) : n \in 2..MaxCompareImages}
  /\ A = NoLayout
  /\ B = NoLayout
  /\ op = NoOp
  /\ pre = <<NoLayout, NoLayout>>
  /\ out = Ok(NoLayout)
  /\ hist = <<>>

NextCompare == InitialPopulation \/ SwapRandomNodePair("A") \/ SwapRandomNodePair("B") \/ Compare

SpecCompare == InitCompare /\ [][NextCompare]_vars

\* ------------------------------------------------------------------ claims
\* C1: for every N >= 2 and every random choice, Layout::new returns a graph
\* with exactly N leaves, N - 1 internal nodes, 2N - 1 nodes and 2(N - 1)
\* edges, every internal node with two outgoing edges, every leaf with none.
C1_NewShape ==
  (op.name = "new" /\ Len(images) >= 2) =>
    /\ out.ok
    /\ Cardinality(LeafLabelled(A)) = Len(images)
    /\ Cardinality(InternalLabelled(A)) = Len(images) - 1
    /\ node_count(A.graph) = 2 * Len(images) - 1
    /\ edge_count(A.graph) = 2 * (Len(images) - 1)
    /\ \A i \in InternalLabelled(A) : OutDegree(A, i) = 2
    /\ \A i \in LeafLabelled(A) : OutDegree(A, i) = 0

C1_Witness == op.name = "new" /\ Len(images) >= 4 /\ out.ok /\ Cardinality(LeafLabelled(A)) = Len(images)

\* C4 (as claimed): for every layout L produced by Layout::new,
\* from_blueprint(to_blueprint(L), images_of(L)) succeeds and is logically
\* equal to L, images_of(L) being the leaf images in leaf_nodes() order.
C4_RoundTripIndexOrder ==
  (hist = <<"new">> /\ op.name = "round_trip" /\ op.order = "index") => (out.ok /\ LayoutEq(out.layout, A))

\* C4 (amended): the round trip is logically equal to L when the leaf images
\* are listed in logical breadth-first order from the root.
C4_RoundTripBfsOrder ==
  (hist = <<"new">> /\ op.name = "round_trip" /\ op.order = "bfs") => (out.ok /\ LayoutEq(out.layout, A))

C4_Witness == hist = <<"new">> /\ op.name = "round_trip" /\ op.order = "bfs" /\ Len(images) >= 5 /\ out.ok /\ LeafImagesBfs(A) # LeafImages(A)

\* C5: the blueprint is a fixed point of decode-then-encode, for layouts
\* produced by Layout::new and for layouts decoded from a blueprint and then
\* changed by swap_order_of_children:
\* to_blueprint(from_blueprint(to_blueprint(L), images)) = to_blueprint(L).
C5_BlueprintFixedPoint ==
  (op.name = "round_trip" /\ op.order = "slice" /\ (hist = <<"new">> \/ (Len(hist) >= 2 /\ hist[1] = "from_blueprint"))) =>
    (out.ok /\ to_blueprint(out.layout) = to_blueprint(A))

C5_Witness ==
  /\ op.name = "round_trip" /\ op.order = "slice" /\ out.ok
  /\ Len(hist) >= 2 /\ hist[2] = "swap_order_of_children"
  /\ Len(to_blueprint(A).graph_representation) = 3

\* Number of empty leaf slots of a blueprint's internal nodes.
EmptySlots(bp) == SumSeq([k \in 1..Len(bp.graph_representation) |-> 2 - Cardinality(Range(bp.graph_representation[k][2]))])

ValidCodes(bp) == \A k \in 1..Len(bp.graph_representation) : bp.graph_representation[k][1] \in {"V", "H"}

C9_UnknownCodeRejected ==
  (op.name = "from_blueprint" /\ ~ValidCodes(op.blueprint)) =>
    /\ ~out.ok /\ ~out.panic /\ ~IsLayout(A)
    /\ \E k \in 1..Len(op.blueprint.graph_representation) :
         /\ op.blueprint.graph_representation[k][1] \notin {"V", "H"}
         /\ out.err = "Unknown label in graph representation: \"" \o op.blueprint.graph_representation[k][1] \o "\""

C9_Witness ==
  /\ op.name = "from_blueprint" /\ ~out.ok
  /\ Len(op.blueprint.graph_representation) = 3
  /\ op.blueprint.graph_representation[1][1] = "V"
  /\ op.blueprint.graph_representation[2][1] = "H"
  /\ op.blueprint.graph_representation[3][1] = "X"
  /\ op.count = EmptySlots(op.blueprint)

\* Number of leaves holding image img.
LeafCount(l, img) == Cardinality({i \in LeafLabelled(l) : node_label(l, i).image = img})

SameLeafMultiset(a, b) == \A img \in Range(images) : LeafCount(a, img) = LeafCount(b, img)

SameEdges(a, b) == a.graph.edges = b.graph.edges /\ a.graph.out = b.graph.out /\ a.graph.inn = b.graph.inn

MutationNames == {"swap_random_node_pair", "randomize_width", "randomize_height", "randomize_dimensions_by_equal_factor"}

\* C7: each of the four mutations leaves the nodes, the edges, the number of
\* leaves, the number of internal nodes and the multiset of leaf images
\* unchanged; swap_random_node_pair changes only node labels and not the
\* canvas; the three canvas mutations change only the canvas dimensions.
C7_MutationFrame ==
  (op.name \in MutationNames /\ op.slot = "A") =>
    /\ node_count(A.graph) = node_count(pre[1].graph)
    /\ SameEdges(A, pre[1])
    /\ Cardinality(LeafLabelled(A)) = Cardinality(LeafLabelled(pre[1]))
    /\ Cardinality(InternalLabelled(A)) = Cardinality(InternalLabelled(pre[1]))
    /\ SameLeafMultiset(A, pre[1])
    /\ (op.name = "swap_random_node_pair" => A.canvas_dimensions = pre[1].canvas_dimensions)
    /\ (op.name # "swap_random_node_pair" => A.graph = pre[1].graph)
    /\ B = pre[2]

C7_Witness ==
  /\ op.name = "swap_random_node_pair" /\ A.graph.nodes # pre[1].graph.nodes
  /\ Len(hist) = 3 /\ hist[2] = "randomize_dimensions_by_equal_factor"
  /\ A.canvas_dimensions.width # Head(pre).canvas_dimensions.height

\* C2: every stored layout is a rooted strict binary tree (one root, every
\* internal node has exactly two distinct children, every leaf has none, every
\* node is reachable from the root), initially and after any sequence of
\* clones, mutations and crossovers, and no such operation panics.
C2_StrictBinaryTree ==
  /\ \A s \in Slots : IsLayout(Slot(s)) => IsStrictBinaryTree(Slot(s))
  /\ ~out.panic

C2_Witness ==
  /\ Len(hist) = 3 /\ hist[2] = "swap_random_node_pair" /\ hist[3] = "crossover"
  /\ op.name = "crossover" /\ op.chosen
  /\ A.graph.nodes # pre[1].graph.nodes
  /\ IsStrictBinaryTree(A) /\ IsStrictBinaryTree(B)

\* C6: a crossover leaves each offspring with the multiset of leaf images and
\* the canvas dimensions of the parent it was cloned from.
C6_CrossoverPreservesLeaves ==
  op.name = "crossover" =>
    /\ SameLeafMultiset(A, pre[1]) /\ A.canvas_dimensions = pre[1].canvas_dimensions
    /\ SameLeafMultiset(B, pre[2]) /\ B.canvas_dimensions = pre[2].canvas_dimensions
    /\ Cardinality(LeafLabelled(A)) = Len(images) /\ Cardinality(LeafLabelled(B)) = Len(images)

C6_Witness ==
  /\ op.name = "crossover" /\ op.chosen
  /\ A # pre[1] /\ B # pre[2]
  /\ pre[1].canvas_dimensions # pre[2].canvas_dimensions
  /\ to_blueprint(A) # to_blueprint(pre[1]) /\ to_blueprint(B) # to_blueprint(pre[2])

\* The internal nodes of the subtree of l rooted at i: those the splice removes.
ReplacedInternals(l, i) == {j \in ReachFrom(l, {i}, {}) : IsInternal(node_label(l, j))}

\* The index a surviving node x of l has once the nodes of `removed` are gone.
Compacted(removed, x) == x - Cardinality({r \in removed : r < x})

\* The index of the new skeleton root after the splice at i in l.
SplicedRoot(l, i) == node_count(l.graph) + 1 - Cardinality(ReplacedInternals(l, i))

\* Every internal node of `before` outside the removed ones has in `after` the
\* same left and right child, new_root standing for the old subtree root i.
ChildOrderKeptOutside(before, after, i, removed, new_root) ==
  \A x \in Range(internal_nodes(before)) \ removed :
    /\ Len(children(before, x)) = 2
    /\ children(after, Compacted(removed, x)) = [k \in 1..2 |-> IF children(before, x)[k] = i THEN new_root ELSE Compacted(removed, children(before, x)[k])]

ChildOrderKept(before, after, i) == ChildOrderKeptOutside(before, after, i, ReplacedInternals(before, i), SplicedRoot(before, i))

\* C3: a crossover splice changes the ordered (left, right) children only of
\* nodes inside the replaced subtree: every internal node outside it keeps its
\* left child and its right child, and the parent of the replaced subtree has
\* the new skeleton root on the side the old subtree root had.
C3_ChildOrderPreserved ==
  (op.name = "crossover" /\ op.chosen /\ ~out.panic) =>
    /\ ChildOrderKept(pre[1], A, op.pair[1])
    /\ ChildOrderKept(pre[2], B, op.pair[2])

EntryNames == {"new", "search_generate_layout", "host_generate_layout"}

BfsLabels(l) == [k \in 1..Len(logical_bfs_iter(l)) |-> node_label(l, logical_bfs_iter(l)[k])]

\* The ordered (left label, right label) pairs of the internal nodes, in
\* breadth-first order.
BfsChildPairs(l) ==
  LET ints == SelectSeq(logical_bfs_iter(l), LAMBDA i : IsInternal(node_label(l, i)))
  IN [k \in 1..Len(ints) |-> <<node_label(l, children(l, ints[k])[1]), node_label(l, children(l, ints[k])[2])>>]

\* C11: two strict binary trees are equal (Layout::eq / logical_eq) if and
\* only if their canvas dimensions are equal, the breadth-first traversals
\* yield the same sequence of node labels and every internal node has the
\* same ordered (left label, right label) pair; two one-internal-node trees
\* with the same two images in opposite order are not equal.
C11_LogicalEqIff ==
  (op.name = "logical_eq" /\ IsStrictBinaryTree(A) /\ IsStrictBinaryTree(B)) =>
    /\ op.eq <=> (op.result = "Ok")
    /\ op.eq <=> (/\ A.canvas_dimensions = B.canvas_dimensions
                  /\ BfsLabels(A) = BfsLabels(B)
                  /\ BfsChildPairs(A) = BfsChildPairs(B))
    /\ op.result # "unreachable"

C11_Witness ==
  /\ op.name = "logical_eq" /\ Len(images) = 2
  /\ A.canvas_dimensions = B.canvas_dimensions
  /\ node_label(A, root_node(A)) = node_label(B, root_node(B))
  /\ BfsChildPairs(A)[1][1] = BfsChildPairs(B)[1][2]
  /\ BfsChildPairs(A)[1][2] = BfsChildPairs(B)[1][1]
  /\ ~op.eq

\* ------------------------------------------------------------------ f64
\* A finite non-negative f64 is the exact fraction <<numerator, denominator>>
\* it denotes.  Every operation rounds its exact result to the nearest value
\* with MantissaBits significant bits, ties to even, as IEEE 754 does with
\* 53 bits; the exponent range is not limited.
RECURSIVE Pow2(_)
Pow2(k) == IF k = 0 THEN 1 ELSE 2 * Pow2(k - 1)

RECURSIVE Gcd(_, _)
Gcd(a, b) == IF b = 0 THEN a ELSE Gcd(b, a % b)

Frac(n, d) == IF n = 0 THEN <<0, 1>> ELSE <<n \div Gcd(n, d), d \div Gcd(n, d)>>

\* The quotient n / d rounded to an integer, ties to even.
NearestEven(n, d) ==
  IF 2 * (n % d) > d \/ (2 * (n % d) = d /\ (n \div d) % 2 = 1) THEN (n \div d) + 1 ELSE n \div d

\* The mantissa of a normal value lies in MantissaLow..MantissaHigh - 1.
MantissaLow == Pow2(MantissaBits - 1)

MantissaHigh == Pow2(MantissaBits)

\* n / d * u / v with n / d brought into [2^(MantissaBits-1), 2^MantissaBits).
RECURSIVE RoundScaled(_, _, _, _)
RoundScaled(n, d, u, v) ==
  IF n < d * MantissaLow THEN RoundScaled(2 * n, d, u, 2 * v)
  ELSE IF n >= d * MantissaHigh THEN RoundScaled(n, 2 * d, 2 * u, v)
  ELSE Frac(NearestEven(n, d) * u, v)

RoundReduced(q) == RoundScaled(q[1], q[2], 1, 1)

round(q) == IF q[1] = 0 THEN <<0, 1>> ELSE RoundReduced(Frac(q[1], q[2]))

f64(n) == <<n, 1>>

f64_add(a, b) == round(<<a[1] * b[2] + b[1] * a[2], a[2] * b[2]>>)

f64_mul(a, b) == round(<<a[1] * b[1], a[2] * b[2]>>)

f64_div(a, b) == round(<<a[1] * b[2], a[2] * b[1]>>)

\* `as u32` of a non-negative finite f64: truncation.
as_u32(a) == a[1] \div a[2]

\* ------------------------------------------- aspect ratios and dimensions
\* LayoutNode::aspect_ratio.
RECURSIVE aspect_ratio(_, _)
aspect_ratio(l, i) ==
  IF IsLeaf(node_label(l, i)) THEN f64_div(f64(node_label(l, i).image.width), f64(node_label(l, i).image.height))
  ELSE IF node_label(l, i).dir = Vertical
       THEN f64_add(aspect_ratio(l, children(l, i)[1]), aspect_ratio(l, children(l, i)[2]))
       ELSE f64_div(f64(1), f64_add(f64_div(f64(1), aspect_ratio(l, children(l, i)[1])), f64_div(f64(1), aspect_ratio(l, children(l, i)[2]))))

\* A fit that takes the width from the parent's height alone.
FitIntoHeight(ar, parent_dimensions) ==
  Dimensions(as_u32(f64_mul(ar, f64(parent_dimensions.height))), as_u32(f64_div(f64(as_u32(f64_mul(ar, f64(parent_dimensions.height)))), ar)))

\* The width and height a node gets inside the rectangle of its parent.
FitInto(ar, parent_dimensions) ==
  LET width == Min(parent_dimensions.width, as_u32(f64_mul(ar, f64(parent_dimensions.height))))
  IN Dimensions(width, as_u32(f64_div(f64(width), ar)))

\* LayoutNode::dimensions: the parent's dimensions, or the canvas for the root.
RECURSIVE node_dimensions(_, _)
node_dimensions(l, i) ==
  FitInto(aspect_ratio(l, i), IF parent_index(l, i) = 0 THEN l.canvas_dimensions ELSE node_dimensions(l, parent_index(l, i)))

\* Layout::dimensions.
layout_dimensions(l) == node_dimensions(l, root_node(l))

size(d) == (d.width * d.height) % U32Modulus

\* ancestors followed by the node itself, root first.
RECURSIVE lineage(_, _)
lineage(l, i) == IF parent_index(l, i) = 0 THEN <<i>> ELSE Append(lineage(l, parent_index(l, i)), i)

\* ----------------------------------------------------------- render_layout
Point(x, y) == [x |-> x, y |-> y]

\* A window step that adds the other child's extent on either side.
step_coords_any_side(l, parent, child, coords) ==
  IF node_label(l, parent) = Internal(Horizontal)
  THEN Point(coords.x, coords.y + node_dimensions(l, other_child(l, parent, child)).height)
  ELSE Point(coords.x + node_dimensions(l, other_child(l, parent, child)).width, coords.y)

\* One (parent, child) window of the lineage walk.
step_coords(l, parent, child, coords) ==
  IF child_side(l, parent, child) = "Right" /\ node_label(l, parent) = Internal(Horizontal)
  THEN Point(coords.x, coords.y + node_dimensions(l, other_child(l, parent, child)).height)
  ELSE IF child_side(l, parent, child) = "Right" /\ node_label(l, parent) = Internal(Vertical)
  THEN Point(coords.x + node_dimensions(l, other_child(l, parent, child)).width, coords.y)
  ELSE coords

\* tuple_windows over the lineage, starting from Point { x: 0, y: 0 }.
RECURSIVE walk_lineage(_, _, _, _)
walk_lineage(l, line, k, coords) ==
  IF k >= Len(line) THEN coords
  ELSE walk_lineage(l, line, k + 1, step_coords(l, line[k], line[k + 1], coords))

leaf_coords(l, leaf) == walk_lineage(l, lineage(l, leaf), 1, Point(0, 0))

\* copy_from fails when the image does not lie inside the buffer.
copy_fits(buffer, at, d) == at.x + d.width <= buffer.width /\ at.y + d.height <= buffer.height

\* render_layout: the buffer and, per leaf in leaf_nodes() order, the image,
\* the size it is resized to and the offset it is copied to.
render_layout(l) ==
  LET leaves == leaf_nodes(l)
      copies == [k \in 1..Len(leaves) |-> [image |-> node_label(l, leaves[k]).image, node |-> leaves[k], at |-> leaf_coords(l, leaves[k]), dimensions |-> node_dimensions(l, leaves[k])]]
  IN [buffer |-> layout_dimensions(l), copies |-> copies, panic |-> \E k \in 1..Len(leaves) : ~copy_fits(layout_dimensions(l), copies[k].at, copies[k].dimensions)]

\* Images of several aspect ratios, widths in 1..3 and heights in 1..2.
PhotoList(n) == [i \in 1..n |-> [width |-> 1 + (i % 3), height |-> 1 + ((i \div 3) % 2), px |-> i]]

\* LayoutMutation::mutate, arms 1 to 3, on slot A.
MutateCanvas ==
  /\ IsLayout(A)
  /\ \E l \in randomize_width(A) \cup randomize_height(A) \cup randomize_dimensions_by_equal_factor(A) :
       /\ l.canvas_dimensions.width <= MaxRenderCanvas
       /\ l.canvas_dimensions.height <= MaxRenderCanvas
       /\ A' = l
  /\ op' = [name |-> "mutate_canvas"]
  /\ pre' = <<A, B>>
  /\ out' = Ok(NoLayout)
  /\ UNCHANGED <<images, B, hist>>

\* renderer::render_layout(&layout) on slot A.
RenderLayout ==
  /\ IsLayout(A)
  /\ op' = [name |-> "render_layout", result |-> render_layout(A)]
  /\ pre' = <<A, B>>
  /\ out' = Ok(NoLayout)
  /\ UNCHANGED <<images, A, B, hist>>

InitRender ==
  /\ images \in {PhotoList(n) : n \in 2..MaxRenderImages}
  /\ A = NoLayout
  /\ B = NoLayout
  /\ op = NoOp
  /\ pre = <<NoLayout, NoLayout>>
  /\ out = Ok(NoLayout)
  /\ hist = <<>>

NextRender == New \/ MutateCanvas \/ RenderLayout

SpecRender == InitRender /\ [][NextRender]_vars

\* The nodes on the way from the root to `leaf` that are the right child of
\* a parent sliced in direction d.
RightSteps(l, leaf, d) ==
  {j \in Range(lineage(l, leaf)) : parent_index(l, j) # 0 /\ children(l, parent_index(l, j))[2] = j /\ node_label(l, parent_index(l, j)) = Internal(d)}

\* The extents of the left siblings of the nodes in S.
LeftSiblingExtents(l, S, field) ==
  SumSeq([k \in 1..Cardinality(S) |-> node_dimensions(l, children(l, parent_index(l, Ascending(S)[k]))[1])[field]])

\* C15: render_layout makes a buffer of the root node's rectangle (not the
\* canvas) and copies every leaf, resized to its rectangle, to the offset
\* whose x is the sum of the left siblings' widths over the steps where the
\* path goes to the right child of a Vertical node and whose y is the sum of
\* the left siblings' heights over the steps to the right child of a
\* Horizontal node; steps to a left child add nothing.
C15_RenderOffsets ==
  (op.name = "render_layout") =>
    /\ op.result.buffer = node_dimensions(A, root_node(A))
    /\ Len(op.result.copies) = Len(images)
    /\ \A k \in 1..Len(op.result.copies) :
         /\ op.result.copies[k].node = leaf_nodes(A)[k]
         /\ op.result.copies[k].image = node_label(A, leaf_nodes(A)[k]).image
         /\ op.result.copies[k].dimensions = node_dimensions(A, leaf_nodes(A)[k])
         /\ op.result.copies[k].at.x = LeftSiblingExtents(A, RightSteps(A, leaf_nodes(A)[k], Vertical), "width")
         /\ op.result.copies[k].at.y = LeftSiblingExtents(A, RightSteps(A, leaf_nodes(A)[k], Horizontal), "height")

C15_Witness ==
  /\ op.name = "render_layout" /\ ~op.result.panic
  /\ op.result.buffer # A.canvas_dimensions
  /\ \E k \in 1..Len(op.result.copies) : op.result.copies[k].at.x > 0 /\ op.result.copies[k].at.y > 0
  /\ \E k \in 1..Len(op.result.copies) : op.result.copies[k].at = Point(0, 0) /\ size(op.result.copies[k].dimensions) > 0

\* ----------------------------------------------------------- FitnessFloat
\* An f64 as its sign bit and its magnitude: a fraction <<n, d>> for a
\* finite magnitude, Infinity or NaN.
Infinity == <<1, 0>>

NaN == <<0, 0>>

F64Value(sign, mag) == [sign |-> sign, mag |-> mag]

\* The magnitudes compared: 0..MaxMagnitude, infinity and NaN.
F64Bits == [sign : {0, 1}, mag : {<<k, 1>> : k \in 0..MaxMagnitude} \cup {Infinity, NaN}]

IsNaN(a) == a.mag = NaN

\* The order of the magnitude bits: finite values by size, then infinity,
\* then NaN.
MagnitudeLess(x, y) == x # NaN /\ (y = NaN \/ x[1] * y[2] < y[1] * x[2])

\* The IEEE 754 comparisons `<` and `==`: false whenever a NaN is involved,
\* and the two zeros are equal.
NumericLess(a, b) ==
  /\ ~IsNaN(a) /\ ~IsNaN(b)
  /\ IF a.sign = 1 /\ b.sign = 0 THEN a.mag[1] # 0 \/ b.mag[1] # 0
     ELSE IF a.sign = 0 /\ b.sign = 1 THEN FALSE
     ELSE IF a.sign = 0 THEN MagnitudeLess(a.mag, b.mag) ELSE MagnitudeLess(b.mag, a.mag)

NumericEqual(a, b) == ~IsNaN(a) /\ ~IsNaN(b) /\ ~NumericLess(a, b) /\ ~NumericLess(b, a)

\* f64::total_cmp: the bits compared as signed integers after the low bits
\* of the negative values are flipped, so every value with the sign bit set
\* comes before every value with the sign bit clear, and among the values
\* with the sign bit set the greater magnitude comes first.
total_cmp_less(a, b) ==
  IF a.sign # b.sign THEN a.sign = 1
  ELSE IF a.sign = 0 THEN MagnitudeLess(a.mag, b.mag) ELSE MagnitudeLess(b.mag, a.mag)

total_cmp(a, b) ==
  IF total_cmp_less(a, b) THEN "Less" ELSE IF total_cmp_less(b, a) THEN "Greater" ELSE "Equal"

\* struct FitnessFloat(f64): the wrapped cost.
FitnessFloat(c) == c

\* An Ord for FitnessFloat that keeps the sense of total_cmp.
fitness_cmp_unreversed(a, b) == total_cmp(a, b)

\* impl Ord for FitnessFloat: cmp.
fitness_cmp(a, b) ==
  IF total_cmp(a, b) = "Greater" THEN "Less"
  ELSE IF total_cmp(a, b) = "Equal" THEN "Equal" ELSE "Greater"

\* impl PartialEq for FitnessFloat: eq.
fitness_eq(a, b) == total_cmp(a, b) = "Equal"

\* Fitness::zero: FitnessFloat(0.0).
zero == F64Value(0, <<0, 1>>)

\* FitnessCalc::highest_possible_fitness.
highest_possible_fitness == zero

\* FitnessCalc::lowest_possible_fitness: FitnessFloat(f64::INFINITY).
lowest_possible_fitness == F64Value(0, Infinity)

\* Three fitness values are compared with each other and with zero().
CompareFitness ==
  /\ \E a \in F64Bits, b \in F64Bits, c \in F64Bits :
       op' = [name |-> "fitness_cmp", a |-> a, b |-> b, c |-> c,
              ab |-> fitness_cmp(a, b), ba |-> fitness_cmp(b, a), bc |-> fitness_cmp(b, c), ac |-> fitness_cmp(a, c),
              eq_ab |-> fitness_eq(a, b), zero_a |-> fitness_cmp(zero, a)]
  /\ UNCHANGED <<images, A, B, pre, out, hist>>

InitFitness ==
  /\ images = <<>>
  /\ A = NoLayout
  /\ B = NoLayout
  /\ op = NoOp
  /\ pre = <<NoLayout, NoLayout>>
  /\ out = Ok(NoLayout)
  /\ hist = <<>>

NextFitness == CompareFitness

SpecFitness == InitFitness /\ [][NextFitness]_vars

\* The floats from the smallest to the greatest cost in the total order:
\* negative NaN, negative infinity, the negative finite values, -0.0, +0.0,
\* the positive finite values, positive infinity, positive NaN.
MagnitudeAt(k) == IF k <= MaxMagnitude THEN <<k, 1>> ELSE IF k = MaxMagnitude + 1 THEN Infinity ELSE NaN

TotalOrderChain ==
  [k \in 1..(2 * MaxMagnitude + 6) |->
     IF k <= MaxMagnitude + 3 THEN F64Value(1, MagnitudeAt(MaxMagnitude + 3 - k))
     ELSE F64Value(0, MagnitudeAt(k - MaxMagnitude - 4))]

TotalOrderLess(a, b) == Position(TotalOrderChain, a) < Position(TotalOrderChain, b)

Reversed(o) == IF o = "Greater" THEN "Less" ELSE IF o = "Less" THEN "Greater" ELSE "Equal"

\* C16 (as stated): FitnessFloat(a) is Greater than FitnessFloat(b) exactly
\* when the cost a is less than b, Equal exactly when a and b are equal and
\* Less otherwise, and the value of cost 0 is the greatest fitness among all
\* non-negative costs.
C16_NumericOrderReversed ==
  (op.name = "fitness_cmp") =>
    /\ (op.ab = "Greater") <=> NumericLess(op.a, op.b)
    /\ (op.ab = "Equal") <=> NumericEqual(op.a, op.b)
    /\ (~IsNaN(op.a) /\ ~NumericLess(op.a, zero)) => op.zero_a \in {"Greater", "Equal"}

\* C16 (amended): FitnessFloat(a) is Greater than FitnessFloat(b) exactly
\* when a comes before b in the total order of f64::total_cmp, Equal exactly
\* when a and b have the same bits, and Less otherwise; for costs that are
\* not NaN and not two zeros of different sign this is the numeric order
\* reversed; the relation is total, antisymmetric and transitive, PartialEq
\* agrees with Ord, and FitnessFloat(+0.0) is the greatest fitness among the
\* costs with a clear sign bit, while FitnessFloat(-0.0) is greater than it.
C16_TotalOrderReversed ==
  (op.name = "fitness_cmp") =>
    /\ (op.ab = "Greater") <=> TotalOrderLess(op.a, op.b)
    /\ (op.ab = "Equal") <=> (op.a = op.b)
    /\ (op.ab = "Less") <=> TotalOrderLess(op.b, op.a)
    /\ (~IsNaN(op.a) /\ ~IsNaN(op.b) /\ ~(op.a.mag = <<0, 1>> /\ op.b.mag = <<0, 1>>)) =>
         /\ (op.ab = "Greater") <=> NumericLess(op.a, op.b)
         /\ (op.ab = "Equal") <=> NumericEqual(op.a, op.b)
    /\ op.ba = Reversed(op.ab)
    /\ (op.ab = "Greater" /\ op.bc = "Greater") => op.ac = "Greater"
    /\ (op.ab = "Equal" /\ op.bc = "Equal") => op.ac = "Equal"
    /\ op.eq_ab <=> (op.ab = "Equal")
    /\ (op.a.sign = 0) => op.zero_a \in {"Greater", "Equal"}
    /\ (op.a = F64Value(1, <<0, 1>>)) => op.zero_a = "Less"

C16_Witness ==
  /\ op.name = "fitness_cmp"
  /\ op.a = F64Value(1, <<0, 1>>) /\ op.b = zero /\ op.c = lowest_possible_fitness
  /\ op.ab = "Greater" /\ op.bc = "Greater" /\ op.ac = "Greater" /\ ~op.eq_ab

\* ------------------------------------------------------------------- cost
\* a - b for two finite non-negative floats.
f64_sub(a, b) ==
  IF a[1] * b[2] >= b[1] * a[2] THEN F64Value(0, round(<<a[1] * b[2] - b[1] * a[2], a[2] * b[2]>>))
  ELSE F64Value(1, round(<<b[1] * a[2] - a[1] * b[2], a[2] * b[2]>>))

\* sum::<f64>() of finite non-negative terms.
RECURSIVE f64_sum(_, _, _)
f64_sum(terms, k, acc) == IF k > Len(terms) THEN acc ELSE f64_sum(terms, k + 1, f64_add(acc, terms[k]))

AbsDiff(a, b) == IF a >= b THEN a - b ELSE b - a

\* scale_factor: |scaled size - original size| / original size, summed over
\* the leaves.
scale_factor(l) ==
  f64_sum([k \in 1..Len(leaf_nodes(l)) |->
             f64_div(f64(AbsDiff(size(node_dimensions(l, leaf_nodes(l)[k])), size(node_label(l, leaf_nodes(l)[k]).image))),
                     f64(size(node_label(l, leaf_nodes(l)[k]).image)))], 1, f64(0))

\* coverage_of_canvas_area: 1 - sum of leaf size / canvas size.  On a canvas
\* of size 0 every leaf has size 0 and every term is 0.0 / 0.0, a NaN whose
\* sign the platform decides (nan_sign).
coverage_of_canvas_area(l, nan_sign) ==
  IF size(l.canvas_dimensions) = 0 THEN F64Value(nan_sign, NaN)
  ELSE f64_sub(f64(1), f64_sum([k \in 1..Len(leaf_nodes(l)) |-> f64_div(f64(size(node_dimensions(l, leaf_nodes(l)[k]))), f64(size(l.canvas_dimensions)))], 1, f64(0)))

\* A finite non-negative float plus a float of either sign.
f64_add_signed(a, b) ==
  IF IsNaN(b) THEN b ELSE IF b.sign = 0 THEN F64Value(0, f64_add(a, b.mag)) ELSE f64_sub(a, b.mag)

\* Layout::cost: number_of_images * scale_factor + coverage_of_canvas_area.
cost(l, nan_sign) ==
  f64_add_signed(f64_mul(f64(Len(leaf_nodes(l))), scale_factor(l)), coverage_of_canvas_area(l, nan_sign))

\* ------------------------------------------------- the evolutionary loop
\* The simulation of algorithm::generate_layout with a population of two
\* individuals, the slots A and B.  FitnessCalc::fitness_of.
fitness_of(l, nan_sign) == FitnessFloat(cost(l, nan_sign))

\* A genome with its fitness.
Evaluated(l, nan_sign) == [genome |-> l, fitness |-> fitness_of(l, nan_sign)]

\* The individual of the first highest fitness of a pair of evaluated genomes.
BestOf(pair) == IF fitness_cmp(pair[2].fitness, pair[1].fitness) = "Greater" THEN pair[2] ELSE pair[1]

OtherOf(pair) == IF fitness_cmp(pair[2].fitness, pair[1].fitness) = "Greater" THEN pair[1] ELSE pair[2]

\* MaximizeSelector::new(0.7, 2) on two individuals: one tuple of parents,
\* the fitter first.
select_parents(evaluated) == <<BestOf(evaluated).genome, OtherOf(evaluated).genome>>

\* LayoutCrossover::crossover: crossover_random_subtrees on the clones of
\* the two parents, over every pair that can be drawn.
crossover(parents) ==
  IF subtree_pairs(parents[1], parents[2]) = {} THEN {[self |-> Ok(parents[1]), other |-> Ok(parents[2])]}
  ELSE {crossover_subtrees(parents[1], parents[2], pair) : pair \in subtree_pairs(parents[1], parents[2])}

\* The arms of LayoutMutation::mutate.
mutate_arm(genome, arm) ==
  IF arm = 0 THEN swap_random_node_pair(genome)
  ELSE IF arm = 1 THEN randomize_width(genome)
  ELSE IF arm = 2 THEN randomize_height(genome)
  ELSE randomize_dimensions_by_equal_factor(genome)

\* LayoutMutation::mutate over every draw; gen_range panics on an empty
\* range.  Canvases are explored up to MaxCanvas.
mutate(genome) ==
  UNION {IF mutate_arm(genome, arm) = {} THEN {Panic("cannot sample empty range")}
         ELSE {Ok(m) : m \in {x \in mutate_arm(genome, arm) : CanvasWithin(x)}} : arm \in 0..3}

\* The mutated children of one parent's child, each with the fitness the
\* reinserter computes for it.
breed(child, nan_sign) ==
  IF ~child.ok THEN {[outcome |-> child, fitness |-> zero]}
  ELSE {[outcome |-> m, fitness |-> IF m.ok THEN fitness_of(m.layout, nan_sign) ELSE zero] : m \in mutate(child.layout)}

\* A reinsertion that replaces the whole population by the offspring.
reinsert_offspring_only(offspring, evaluated) == offspring

\* ElitistReinserter::new(FitnessCalc, true, 0.7) on two individuals:
\* floor(2 * 0.7 + 0.5) = 1 individual is the best of the offspring, the
\* remaining one is the best of the old population.
reinsert(offspring, evaluated) == <<BestOf(offspring), BestOf(evaluated)>>

\* or(FitnessLimit::new(highest_possible_fitness()), GenerationLimit::new(generation_limit)).
should_stop(best_fitness, iteration) ==
  fitness_cmp(best_fitness, highest_possible_fitness) \in {"Greater", "Equal"} \/ iteration >= generation_limit

\* generate_layout up to the start of layout_sim.run(): the initial
\* population of Layout::new individuals.  The sign of the NaNs the
\* platform produces is fixed for the run.
StartSimulation ==
  /\ hist = <<>>
  /\ \E a \in NewOutcomes(images, PopAttach, PopShift, PopPick), b \in NewOutcomes(images, PopAttach, PopShift, PopPick) :
       /\ a.ok /\ b.ok
       /\ A' = a.layout
       /\ B' = b.layout
  /\ \E nan_sign \in {0, 1} : op' = [name |-> "simulate", iteration |-> 0, nan_sign |-> nan_sign, evaluated |-> <<zero, zero>>, population |-> <<zero, zero>>]
  /\ hist' = <<"new">>
  /\ pre' = <<A, B>>
  /\ out' = Ok(NoLayout)
  /\ UNCHANGED images

\* The run ends with the panic of an operator.
Aborted(o) ==
  /\ out' = o
  /\ op' = [name |-> "aborted", iteration |-> op.iteration + 1, nan_sign |-> op.nan_sign, evaluated |-> <<zero, zero>>, population |-> <<zero, zero>>]
  /\ hist' = Append(hist, "aborted")
  /\ pre' = <<A, B>>
  /\ UNCHANGED <<images, A, B>>

\* The end of one step: the next population is stored, then the termination
\* is evaluated on the population the step has evaluated; a run that stops
\* returns step.result.best_solution.solution.genome.  The fitness values of
\* the evaluated and of the next population are recorded.
Reinserted(next_population, evaluated, iteration) ==
  /\ A' = next_population[1].genome
  /\ B' = next_population[2].genome
  /\ pre' = <<A, B>>
  /\ hist' = Append(hist, "generation")
  /\ op' = [name |-> IF should_stop(BestOf(evaluated).fitness, iteration) THEN "final" ELSE "generation",
            iteration |-> iteration, nan_sign |-> op.nan_sign,
            evaluated |-> <<evaluated[1].fitness, evaluated[2].fitness>>,
            population |-> <<next_population[1].fitness, next_population[2].fitness>>]
  /\ out' = IF should_stop(BestOf(evaluated).fitness, iteration) THEN Ok(BestOf(evaluated).genome) ELSE Ok(NoLayout)
  /\ UNCHANGED images

\* Breeding and reinsertion for one outcome of the crossover.
Bred(offspring, evaluated) ==
  \E m1 \in breed(offspring.self, op.nan_sign), m2 \in breed(offspring.other, op.nan_sign) :
    IF ~m1.outcome.ok THEN Aborted(m1.outcome)
    ELSE IF ~m2.outcome.ok THEN Aborted(m2.outcome)
    ELSE Reinserted(reinsert(<<[genome |-> m1.outcome.layout, fitness |-> m1.fitness], [genome |-> m2.outcome.layout, fitness |-> m2.fitness]>>, evaluated),
               evaluated, op.iteration + 1)

\* One step of layout_sim.run(): evaluation, selection, crossover, mutation,
\* reinsertion and termination.
Generation ==
  /\ op.name \in {"simulate", "generation"}
  /\ \E evaluated \in {<<Evaluated(A, op.nan_sign), Evaluated(B, op.nan_sign)>>} :
       \E offspring \in crossover(select_parents(evaluated)) : Bred(offspring, evaluated)

InitEvolve ==
  /\ images \in {PhotoList(n) : n \in 2..MaxEvolveImages} \cup {SquareImageList(n) : n \in 2..MaxEvolveImages}
  /\ A = NoLayout
  /\ B = NoLayout
  /\ op = NoOp
  /\ pre = <<NoLayout, NoLayout>>
  /\ out = Ok(NoLayout)
  /\ hist = <<>>

NextEvolve == StartSimulation \/ Generation

SpecEvolve == InitEvolve /\ [][NextEvolve]_vars


\* ------------------------------------------------------------ seeded runs
\* layout_sim.build_with_seed(Pcg64::seed_from_u64(seed).gen()): the draws
\* of the simulation are a function of the seed.  The arm of the mutation
\* of child k in a generation is drawn as below; every other draw is the
\* fixed choice CHOOSE makes among the possible outcomes.
seeded_arm(seed, iteration, k) == (seed + iteration + k) % 4

seeded_crossover(parents) ==
  IF subtree_pairs(parents[1], parents[2]) = {} THEN [self |-> Ok(parents[1]), other |-> Ok(parents[2])]
  ELSE crossover_subtrees(parents[1], parents[2], CHOOSE pair \in subtree_pairs(parents[1], parents[2]) : TRUE)

seeded_mutate(child, arm) ==
  IF ~child.ok THEN child
  ELSE IF mutate_arm(child.layout, arm) = {} THEN Panic("cannot sample empty range")
  ELSE Ok(CHOOSE m \in {x \in mutate_arm(child.layout, arm) : CanvasWithin(x)} : TRUE)

\* layout_sim.run() from the evaluated population of generation `iteration`
\* on: the layout returned, or the panic the run ends with.
RECURSIVE run_seeded(_, _, _, _)
seeded_step(evaluated, m1, m2, seed, iteration, nan_sign) ==
  IF ~m1.ok THEN m1
  ELSE IF ~m2.ok THEN m2
  ELSE IF should_stop(BestOf(evaluated).fitness, iteration) THEN Ok(BestOf(evaluated).genome)
  ELSE run_seeded(reinsert(<<Evaluated(m1.layout, nan_sign), Evaluated(m2.layout, nan_sign)>>, evaluated), seed, iteration + 1, nan_sign)

seeded_breed(evaluated, offspring, seed, iteration, nan_sign) ==
  seeded_step(evaluated, seeded_mutate(offspring.self, seeded_arm(seed, iteration, 1)), seeded_mutate(offspring.other, seeded_arm(seed, iteration, 2)), seed, iteration, nan_sign)

run_seeded(evaluated, seed, iteration, nan_sign) ==
  seeded_breed(evaluated, seeded_crossover(select_parents(evaluated)), seed, iteration, nan_sign)

\* algorithm::generate_layout(images, rng, Some(seed)): initial_population is
\* what Layout::new(images, rng) builds from the caller's generator (canvas,
\* order of the images, attachment nodes) and from the thread-local
\* generator of rand::random() (slice directions); only the simulation is
\* built with the seed.
generate_layout_with_seed(initial_population, seed, nan_sign) ==
  run_seeded(<<Evaluated(initial_population[1], nan_sign), Evaluated(initial_population[2], nan_sign)>>, seed, 1, nan_sign)

\* The individuals Layout::new can build from the states of the caller's
\* and of the thread-local generator.
NewLayouts == {o.layout : o \in {x \in NewOutcomes(images, PopAttach, PopShift, PopPick) : x.ok}}

\* Two runs of generate_layout on the same images with the same seed; the
\* generators of the caller and of the thread are in any state in each run.
SeededRuns ==
  /\ hist = <<>>
  /\ \E seed \in 0..MaxSeed, nan_sign \in {0, 1}, first \in NewLayouts \X NewLayouts, second \in NewLayouts \X NewLayouts :
       /\ op' = [name |-> "seeded_runs", seed |-> seed, nan_sign |-> nan_sign, rng |-> <<first, second>>,
                 second |-> generate_layout_with_seed(second, seed, nan_sign)]
       /\ out' = generate_layout_with_seed(first, seed, nan_sign)
  /\ hist' = <<"seeded_runs">>
  /\ pre' = <<A, B>>
  /\ UNCHANGED <<images, A, B>>

NextSeed == SeededRuns

SpecSeed == InitEvolve /\ [][NextSeed]_vars

\* C12 (as stated): with a seed every draw of the run derives from the
\* seed, the draws of Layout::new for the initial population included, so
\* two runs on the same images with the same seed return the same layout
\* whatever the state of the caller-supplied and of the thread-local
\* generator.
C12_SeedDeterminesLayout ==
  (op.name = "seeded_runs") => (out = op.second)

\* The lowest of two recorded costs in the order of the fitness.
LowestCost(costs) == IF fitness_cmp(costs[2], costs[1]) = "Greater" THEN costs[2] ELSE costs[1]

IsCostZero(c) == NumericEqual(c, zero)

\* C13 (as stated): the loop stops at the first generation in which the best
\* layout has cost 0 or the generation counter reaches the generation
\* limit; it never runs more than generation_limit generations and never
\* stops earlier without a cost-0 layout.
C13_StopsAtCostZeroOrLimit ==
  /\ (op.name \in {"generation", "final"}) => op.iteration <= generation_limit
  /\ (op.name = "final") => (op.iteration = generation_limit \/ IsCostZero(LowestCost(op.evaluated)))
  /\ (op.name = "generation") => (op.iteration < generation_limit /\ ~IsCostZero(LowestCost(op.evaluated)))

IsStrictSkeleton(bp) ==
  /\ Len(bp.graph_representation) >= 1
  /\ ValidCodes(bp)
  /\ \A k \in 1..Len(bp.graph_representation) :
       /\ Len(bp.graph_representation[k][2]) <= 2
       /\ Cardinality(Range(bp.graph_representation[k][2])) = Len(bp.graph_representation[k][2])
       /\ \A c \in Range(bp.graph_representation[k][2]) : c > k /\ c <= Len(bp.graph_representation)
  /\ \A j \in 2..Len(bp.graph_representation) :
       Cardinality({k \in 1..Len(bp.graph_representation) : j \in Range(bp.graph_representation[k][2])}) = 1

\* The entry that receives the j-th image: every entry is listed once per
\* child it lacks, in list order.
RECURSIVE LeafSlots(_, _)
LeafSlots(rep, k) ==
  IF k > Len(rep) THEN <<>> ELSE [j \in 1..(2 - Len(rep[k][2])) |-> k] \o LeafSlots(rep, k + 1)

\* The leaves expected under entry i, in the order of their images.
LeavesUnder(rep, i) ==
  SelectSeq([j \in 1..Len(LeafSlots(rep, 1)) |-> Len(rep) + j], LAMBDA n : LeafSlots(rep, 1)[n - Len(rep)] = i)

\* C17: for a blueprint of a strict binary skeleton and an image list of
\* matching length, from_blueprint creates internal node i for entry i
\* with the entry's direction, gives each node its listed internal children
\* in listed order as its first children, and attaches the images in input
\* order as leaves to the nodes with fewer than two children in list order,
\* filling each up to two; a node with one listed child has the internal
\* child on the left and a leaf on the right.
C17_FromBlueprintConstruction ==
  (op.name = "from_blueprint" /\ IsStrictSkeleton(op.blueprint) /\ op.count = Len(op.blueprint.graph_representation) + 1) =>
    /\ out.ok /\ out.layout = A
    /\ A.canvas_dimensions = Dimensions(op.blueprint.width, op.blueprint.height)
    /\ node_count(A.graph) = 2 * Len(op.blueprint.graph_representation) + 1
    /\ \A i \in 1..Len(op.blueprint.graph_representation) :
         /\ node_label(A, i) = Internal(IF op.blueprint.graph_representation[i][1] = "V" THEN Vertical ELSE Horizontal)
         /\ children(A, i) = op.blueprint.graph_representation[i][2] \o LeavesUnder(op.blueprint.graph_representation, i)
         /\ Len(op.blueprint.graph_representation[i][2]) = 1 =>
              (IsInternal(node_label(A, children(A, i)[1])) /\ IsLeaf(node_label(A, children(A, i)[2])))
    /\ \A j \in 1..op.count :
         /\ node_label(A, Len(op.blueprint.graph_representation) + j) = Leaf(images[j])
         /\ parent_index(A, Len(op.blueprint.graph_representation) + j) = LeafSlots(op.blueprint.graph_representation, 1)[j]

C17_Witness ==
  /\ op.name = "from_blueprint" /\ IsStrictSkeleton(op.blueprint) /\ op.count = 4
  /\ op.blueprint.graph_representation = <<<<"V", <<2>>>>, <<"H", <<3>>>>, <<"H", <<>>>>>>
  /\ out.ok /\ IsStrictBinaryTree(A)

\* The internal nodes in breadth-first order, left before right.
BfsInternals(l) == SelectSeq(logical_bfs_iter(l), LAMBDA i : IsInternal(node_label(l, i)))

\* The number of edges between a node and the root.
Depth(l, i) == Len(lineage(l, i)) - 1

\* The positions in `ints` of those nodes of `nodes` that are internal.
InternalPositions(l, ints, nodes) ==
  [k \in 1..Len(SelectSeq(nodes, LAMBDA c : IsInternal(node_label(l, c)))) |->
     Position(ints, SelectSeq(nodes, LAMBDA c : IsInternal(node_label(l, c)))[k])]

\* C18: for a strict binary tree, to_blueprint emits one entry per internal
\* node in breadth-first order (left before right), the root first, each
\* with "V" or "H" for the node's direction and the positions of those
\* children that are internal, left to right; width and height are the
\* canvas dimensions; every position but the first occurs in exactly one
\* child list, and each child position is greater than its parent's.
\* (Positions are counted from 1 here, from 0 in the code.)
C18_ToBlueprintShape ==
  (op.name = "round_trip" /\ IsStrictBinaryTree(A)) =>
    /\ op.blueprint.width = A.canvas_dimensions.width
    /\ op.blueprint.height = A.canvas_dimensions.height
    /\ Len(op.blueprint.graph_representation) = Cardinality(InternalLabelled(A))
    /\ Range(BfsInternals(A)) = InternalLabelled(A)
    /\ BfsInternals(A)[1] = root_node(A)
    /\ \A k \in 1..Len(op.blueprint.graph_representation) :
         /\ op.blueprint.graph_representation[k][1] = (IF node_label(A, BfsInternals(A)[k]) = Internal(Vertical) THEN "V" ELSE "H")
         /\ op.blueprint.graph_representation[k][2] = InternalPositions(A, BfsInternals(A), children(A, BfsInternals(A)[k]))
         /\ \A c \in Range(op.blueprint.graph_representation[k][2]) : c > k
         /\ k > 1 => Depth(A, BfsInternals(A)[k]) >= Depth(A, BfsInternals(A)[k - 1])
         /\ k > 1 => Cardinality({<<j, c>> \in (1..Len(op.blueprint.graph_representation)) \X (1..2) :
                                     c <= Len(op.blueprint.graph_representation[j][2]) /\ op.blueprint.graph_representation[j][2][c] = k}) = 1
    /\ \A j \in 1..Len(op.blueprint.graph_representation) : 1 \notin Range(op.blueprint.graph_representation[j][2])

C18_Witness ==
  /\ op.name = "round_trip" /\ IsStrictBinaryTree(A)
  /\ Len(op.blueprint.graph_representation) >= 3
  /\ \E k \in 1..Len(op.blueprint.graph_representation) : Len(op.blueprint.graph_representation[k][2]) = 1
  /\ BfsInternals(A) # internal_nodes(A)

\* The internal nodes whose label is Internal(d).
InternalWith(l, d) == {i \in Range(internal_nodes(l)) : node_label(l, i) = Internal(d)}

\* All internal nodes carry the same slice direction.
SameDirection(l) == InternalWith(l, Vertical) = {} \/ InternalWith(l, Horizontal) = {}

\* The leaves hold pairwise distinct images.
DistinctImages(l) == \A j, k \in 1..Len(LeafImages(l)) : j # k => LeafImages(l)[j] # LeafImages(l)[k]

\* The positions at which two sequences of equal length differ.
Differing(s, t) == {k \in 1..Len(s) : s[k] # t[k]}

\* The nodes whose label differs between two layouts over the same graph.
Relabelled(l, m) == {i \in Nodes(l) : node_label(l, i) # node_label(m, i)}

\* The layout apart from its labels.
Unlabelled(l) == [l EXCEPT !.graph.nodes = [i \in 1..Len(l.graph.nodes) |-> 0]]

\* C19: when the leaves hold pairwise distinct images and all internal
\* nodes carry the same slice direction, swap_random_node_pair (and so
\* swap_with_random_node started at any internal node) exchanges exactly
\* two images in the leaf_nodes() sequence, for every random choice, and
\* leaves every internal label unchanged.
C19_SwapFallsBackToLeaves ==
  (op.name = "swap_random_node_pair" /\ SameDirection(pre[1]) /\ DistinctImages(pre[1]) /\ Len(leaf_nodes(pre[1])) >= 2) =>
    /\ leaf_nodes(A) = leaf_nodes(pre[1])
    /\ Cardinality(Differing(LeafImages(A), LeafImages(pre[1]))) = 2
    /\ \A j, k \in Differing(LeafImages(A), LeafImages(pre[1])) : j # k => LeafImages(A)[j] = LeafImages(pre[1])[k]
    /\ \A i \in Range(internal_nodes(pre[1])) : node_label(A, i) = node_label(pre[1], i)

C19_Witness ==
  /\ op.name = "swap_random_node_pair" /\ SameDirection(pre[1]) /\ DistinctImages(pre[1])
  /\ IsInternal(node_label(pre[1], op.index)) /\ op.index # root_node(pre[1])
  /\ Len(internal_nodes(pre[1])) >= 3
  /\ Cardinality(Differing(LeafImages(A), LeafImages(pre[1]))) = 2

\* C20: swap_with_random_node started at an internal node n, with an
\* internal node of the other slice direction present, changes exactly two
\* labels: n takes the opposite direction and one node that carried it
\* takes n's former direction; the numbers of Vertical and Horizontal
\* nodes, the leaf labels, the edges and the canvas are unchanged.  Started
\* at a leaf, the leaf exchanges its image with a leaf at another index and
\* nothing else changes.
C20_SwapExchangesTwoLabels ==
  (op.name = "swap_random_node_pair") =>
    /\ Unlabelled(A) = Unlabelled(pre[1])
    /\ (IsInternal(node_label(pre[1], op.index)) /\ ~SameDirection(pre[1])) =>
         /\ Cardinality(Relabelled(A, pre[1])) = 2
         /\ op.index \in Relabelled(A, pre[1])
         /\ \A m \in Relabelled(A, pre[1]) :
              /\ IsInternal(node_label(pre[1], m)) /\ IsInternal(node_label(A, m))
              /\ m # op.index => (node_label(pre[1], m) = node_label(A, op.index) /\ node_label(A, m) = node_label(pre[1], op.index))
         /\ \A d \in SliceDirection : Cardinality(InternalWith(A, d)) = Cardinality(InternalWith(pre[1], d))
         /\ \A i \in Range(leaf_nodes(pre[1])) : node_label(A, i) = node_label(pre[1], i)
    /\ IsLeaf(node_label(pre[1], op.index)) =>
         \E other \in Range(leaf_nodes(pre[1])) \ {op.index} :
           /\ node_label(A, op.index) = node_label(pre[1], other)
           /\ node_label(A, other) = node_label(pre[1], op.index)
           /\ Relabelled(A, pre[1]) = {op.index, other}

C20_Witness ==
  /\ op.name = "swap_random_node_pair" /\ IsInternal(node_label(pre[1], op.index))
  /\ Cardinality(InternalWith(pre[1], Vertical)) >= 2 /\ Cardinality(InternalWith(pre[1], Horizontal)) >= 1
  /\ node_label(pre[1], op.index) = Internal(Vertical) /\ node_label(A, op.index) = Internal(Horizontal)

C20_WitnessLeaf ==
  /\ op.name = "swap_random_node_pair" /\ IsLeaf(node_label(pre[1], op.index))
  /\ Len(leaf_nodes(pre[1])) >= 3 /\ Relabelled(A, pre[1]) # {}

\* The leaves below a node: those with the node in their lineage.
LeavesBelow(l, i) == {j \in LeafLabelled(l) : i \in Range(lineage(l, j))}

\* The pairs of internal nodes, one of each layout, whose subtrees hold
\* the same number of leaves, three at least.
EligiblePairs(l, other) ==
  {p \in InternalLabelled(l) \X InternalLabelled(other) :
     /\ Cardinality(LeavesBelow(l, p[1])) >= 3
     /\ Cardinality(LeavesBelow(l, p[1])) = Cardinality(LeavesBelow(other, p[2]))}

\* C21: crossover_random_subtrees exchanges only a pair of subtrees rooted
\* at internal nodes, each holding at least three leaves and both the same
\* number of leaves; every such pair of the two parents is among the pairs
\* it chooses from; when there is no such pair both layouts stay as they
\* were.
C21_EligibleSubtreePairs ==
  (op.name = "crossover") =>
    /\ subtree_pairs(pre[1], pre[2]) = EligiblePairs(pre[1], pre[2])
    /\ op.chosen <=> EligiblePairs(pre[1], pre[2]) # {}
    /\ op.chosen => op.pair \in EligiblePairs(pre[1], pre[2])
    /\ ~op.chosen => (A = pre[1] /\ B = pre[2])

C21_Witness ==
  /\ op.name = "crossover" /\ op.chosen
  /\ Cardinality(EligiblePairs(pre[1], pre[2])) >= 2
  /\ Cardinality(LeavesBelow(pre[1], op.pair[1])) = 3
  /\ op.pair[1] # root_node(pre[1])
  /\ \E i \in InternalLabelled(pre[1]) : Cardinality(LeavesBelow(pre[1], i)) = 2

C21_WitnessNoPair ==
  /\ op.name = "crossover" /\ ~op.chosen /\ Len(images) = 2 /\ A # B

\* The internal skeleton of the subtree rooted at i: per internal node, in
\* logical breadth-first order, its direction and which of its left and
\* right child is internal.
SkeletonOf(l, i) ==
  [k \in 1..Len(SelectSeq(logical_subtree_bfs_iter(l, i), LAMBDA n : IsInternal(node_label(l, n)))) |->
     <<node_label(l, SelectSeq(logical_subtree_bfs_iter(l, i), LAMBDA n : IsInternal(node_label(l, n)))[k]).dir,
       IsInternal(node_label(l, children(l, SelectSeq(logical_subtree_bfs_iter(l, i), LAMBDA n : IsInternal(node_label(l, n)))[k])[1])),
       IsInternal(node_label(l, children(l, SelectSeq(logical_subtree_bfs_iter(l, i), LAMBDA n : IsInternal(node_label(l, n)))[k])[2]))>>]

\* The images of the leaves of the subtree rooted at i in logical
\* breadth-first order.
SubtreeLeafImages(l, i) ==
  [k \in 1..Len(SelectSeq(logical_subtree_bfs_iter(l, i), LAMBDA n : IsLeaf(node_label(l, n)))) |->
     node_label(l, SelectSeq(logical_subtree_bfs_iter(l, i), LAMBDA n : IsLeaf(node_label(l, n)))[k]).image]

\* The nodes outside the subtree at i keep their labels.
LabelsKeptOutside(before, after, i) ==
  \A x \in Nodes(before) \ ReachFrom(before, {i}, {}) :
    node_label(after, Compacted(ReplacedInternals(before, i), x)) = node_label(before, x)

\* The subtree spliced into `after` in the place of i has the skeleton the
\* donor's subtree at j had.
SkeletonTaken(before, after, i, donor, j) == SkeletonOf(after, SplicedRoot(before, i)) = SkeletonOf(donor, j)

\* The leaves of the replaced subtree keep their breadth-first order.
LeafOrderKept(before, after, i) == SubtreeLeafImages(after, SplicedRoot(before, i)) = SubtreeLeafImages(before, i)

\* C22: crossover_subtrees(A, B, (i, j)) is a synchronized swap: the
\* subtree of A in the place of i has the skeleton B's subtree at j had
\* before the call, the subtree of B in the place of j has the skeleton
\* A's subtree at i had before the call, everything outside the two
\* subtrees is unchanged, the leaves of each replaced subtree keep the
\* breadth-first order they had, and with both roots chosen on parents of
\* the same canvas and leaf order the results are logically equal to the
\* swapped originals.
C22_SynchronizedSwap ==
  (op.name = "crossover" /\ op.chosen /\ ~out.panic) =>
    /\ SkeletonTaken(pre[1], A, op.pair[1], pre[2], op.pair[2])
    /\ SkeletonTaken(pre[2], B, op.pair[2], pre[1], op.pair[1])
    /\ LeafOrderKept(pre[1], A, op.pair[1])
    /\ LeafOrderKept(pre[2], B, op.pair[2])
    /\ LabelsKeptOutside(pre[1], A, op.pair[1])
    /\ LabelsKeptOutside(pre[2], B, op.pair[2])
    /\ ChildOrderKept(pre[1], A, op.pair[1])
    /\ ChildOrderKept(pre[2], B, op.pair[2])
    /\ (/\ op.pair = <<root_node(pre[1]), root_node(pre[2])>>
        /\ pre[1].canvas_dimensions = pre[2].canvas_dimensions
        /\ LeafImagesBfs(pre[1]) = LeafImagesBfs(pre[2])) => (LayoutEq(A, pre[2]) /\ LayoutEq(B, pre[1]))

\* ------------------------------------------------------- canvas arithmetic
\* randomize_width on slot A, for any value of gen_range, on a canvas of any
\* size a u32 holds.
RandomizeWidthBy ==
  /\ IsLayout(A) /\ Len(hist) < MaxWordSteps + 1
  /\ \E d \in (1 - A.canvas_dimensions.width)..(2 * A.canvas_dimensions.height) :
       /\ A' = randomize_width_by(A, d)
       /\ op' = [name |-> "randomize_width", slot |-> "A", draw |-> d]
  /\ hist' = Append(hist, "randomize")
  /\ pre' = <<A, B>>
  /\ out' = Ok(NoLayout)
  /\ UNCHANGED <<images, B>>

RandomizeHeightBy ==
  /\ IsLayout(A) /\ Len(hist) < MaxWordSteps + 1
  /\ \E d \in (1 - A.canvas_dimensions.height)..(2 * A.canvas_dimensions.width) :
       /\ A' = randomize_height_by(A, d)
       /\ op' = [name |-> "randomize_height", slot |-> "A", draw |-> d]
  /\ hist' = Append(hist, "randomize")
  /\ pre' = <<A, B>>
  /\ out' = Ok(NoLayout)
  /\ UNCHANGED <<images, B>>

InitWord ==
  /\ images = SquareImageList(2)
  /\ A = NoLayout
  /\ B = NoLayout
  /\ op = NoOp
  /\ pre = <<NoLayout, NoLayout>>
  /\ out = Ok(NoLayout)
  /\ hist = <<>>

NextWord == Founder \/ RandomizeWidthBy \/ RandomizeHeightBy

SpecWord == InitWord /\ [][NextWord]_vars

\* C23: on a canvas (w, h) with w >= 1 and h >= 1, randomize_width sets the
\* width to w + d for a d with -(w - 1) <= d <= 2h, a value in 1..w + 2h, and
\* leaves the height as it was; randomize_height likewise with the roles
\* of width and height exchanged.
C23_RandomizedWithinRange ==
  (op.name \in {"randomize_width", "randomize_height"} /\ pre[1].canvas_dimensions.width >= 1 /\ pre[1].canvas_dimensions.height >= 1) =>
    /\ op.name = "randomize_width" =>
         /\ A.canvas_dimensions.height = pre[1].canvas_dimensions.height
         /\ \E d \in (1 - pre[1].canvas_dimensions.width)..(2 * pre[1].canvas_dimensions.height) :
              A.canvas_dimensions.width = pre[1].canvas_dimensions.width + d
         /\ A.canvas_dimensions.width \in 1..(pre[1].canvas_dimensions.width + 2 * pre[1].canvas_dimensions.height)
    /\ op.name = "randomize_height" =>
         /\ A.canvas_dimensions.width = pre[1].canvas_dimensions.width
         /\ \E d \in (1 - pre[1].canvas_dimensions.height)..(2 * pre[1].canvas_dimensions.width) :
              A.canvas_dimensions.height = pre[1].canvas_dimensions.height + d
         /\ A.canvas_dimensions.height \in 1..(pre[1].canvas_dimensions.height + 2 * pre[1].canvas_dimensions.width)

\* C27: canvas arithmetic never wraps: on every canvas reached from
\* Layout::new by mutations, the value randomize_width or randomize_height
\* stores after the cast to u32 is the mathematical sum of the dimension
\* and the value drawn, and Dimensions::size is the mathematical product
\* of width and height.
C27_NoWrap ==
  /\ op.name = "randomize_width" => A.canvas_dimensions.width = pre[1].canvas_dimensions.width + op.draw
  /\ op.name = "randomize_height" => A.canvas_dimensions.height = pre[1].canvas_dimensions.height + op.draw
  /\ IsLayout(A) => size(A.canvas_dimensions) = A.canvas_dimensions.width * A.canvas_dimensions.height

\* The rectangle a node is fitted into: its parent's, or the canvas.
ParentDimensions(l, i) == IF parent_index(l, i) = 0 THEN l.canvas_dimensions ELSE node_dimensions(l, parent_index(l, i))

\* The aspect ratio of node i follows the recursion over its children.
AspectRatioRecursion(l, i) ==
  /\ IsLeaf(node_label(l, i)) =>
       aspect_ratio(l, i) = f64_div(f64(node_label(l, i).image.width), f64(node_label(l, i).image.height))
  /\ node_label(l, i) = Internal(Vertical) =>
       aspect_ratio(l, i) = f64_add(aspect_ratio(l, children(l, i)[1]), aspect_ratio(l, children(l, i)[2]))
  /\ node_label(l, i) = Internal(Horizontal) =>
       aspect_ratio(l, i) = f64_div(f64(1), f64_add(f64_div(f64(1), aspect_ratio(l, children(l, i)[1])), f64_div(f64(1), aspect_ratio(l, children(l, i)[2]))))

\* C24: every node's rectangle has width min(parent.width, floor(AR *
\* parent.height)) and height floor(width / AR), AR being the aspect ratio
\* of the recursion (leaf: w / h; Vertical: sum; Horizontal: reciprocal of
\* the sum of reciprocals), and it fits inside the rectangle of its parent
\* (the canvas for the root).
C24_NodeFitsInParent ==
  (op.name = "render_layout") =>
    \A i \in Nodes(A) :
      /\ AspectRatioRecursion(A, i)
      /\ node_dimensions(A, i).width = Min(ParentDimensions(A, i).width, as_u32(f64_mul(aspect_ratio(A, i), f64(ParentDimensions(A, i).height))))
      /\ node_dimensions(A, i).height = as_u32(f64_div(f64(node_dimensions(A, i).width), aspect_ratio(A, i)))
      /\ node_dimensions(A, i).width <= ParentDimensions(A, i).width
      /\ node_dimensions(A, i).height <= ParentDimensions(A, i).height

C24_Witness ==
  /\ op.name = "render_layout"
  /\ \E i \in Nodes(A) :
       /\ parent_index(A, i) # 0
       /\ node_dimensions(A, i).width > 0
       /\ node_dimensions(A, i).width < ParentDimensions(A, i).width
       /\ f64(node_dimensions(A, i).width) # f64_mul(aspect_ratio(A, i), f64(ParentDimensions(A, i).height))
  /\ \E i \in Nodes(A) :
       /\ node_dimensions(A, i).width = ParentDimensions(A, i).width
       /\ 0 < node_dimensions(A, i).height /\ node_dimensions(A, i).height < ParentDimensions(A, i).height

\* The sum of the areas of the leaves' rectangles.
LeafAreaSum(l) == SumSeq([k \in 1..Len(leaf_nodes(l)) |-> size(node_dimensions(l, leaf_nodes(l)[k]))])

\* A float that is no NaN and not below zero.
NotNegative(a) == ~IsNaN(a) /\ (a.sign = 0 \/ a.mag[1] = 0)

\* --------------------------------------------------------- cost of a layout
\* Three images of one height: strips 2, 4 and 1 wide.
StripList ==
  <<[width |-> 2, height |-> 1, px |-> 1], [width |-> 4, height |-> 1, px |-> 2], [width |-> 1, height |-> 1, px |-> 3]>>

\* Layout::new on slot A, the canvas drawn from up to MaxCostPick images.
NewLayout ==
  /\ hist = <<>>
  /\ \E o \in NewOutcomes(images, MaxAttach, MaxShift, MaxCostPick) :
       /\ o.ok
       /\ A' = o.layout
  /\ op' = [name |-> "new"]
  /\ hist' = <<"new">>
  /\ pre' = <<A, B>>
  /\ out' = Ok(NoLayout)
  /\ UNCHANGED <<images, B>>

\* Layout::cost on slot A (a canvas of Layout::new has no zero dimension,
\* so no term is a NaN).
Cost ==
  /\ IsLayout(A)
  /\ op' = [name |-> "cost", coverage |-> coverage_of_canvas_area(A, 0), cost |-> cost(A, 0)]
  /\ pre' = <<A, B>>
  /\ out' = Ok(NoLayout)
  /\ UNCHANGED <<images, A, B, hist>>

InitCost ==
  /\ images \in {StripList, PhotoList(3)}
  /\ A = NoLayout
  /\ B = NoLayout
  /\ op = NoOp
  /\ pre = <<NoLayout, NoLayout>>
  /\ out = Ok(NoLayout)
  /\ hist = <<>>

NextCost == NewLayout \/ Cost

SpecCost == InitCost /\ [][NextCost]_vars

\* C25: on a strict binary tree with canvas dimensions of at least 1 the
\* areas of the leaves sum to at most the canvas area, so
\* coverage_of_canvas_area lies in [0, 1] and cost is not negative.
C25_CoverageWithinUnit ==
  (op.name = "cost" /\ IsStrictBinaryTree(A) /\ A.canvas_dimensions.width >= 1 /\ A.canvas_dimensions.height >= 1) =>
    /\ LeafAreaSum(A) <= size(A.canvas_dimensions)
    /\ NotNegative(op.coverage)
    /\ ~NumericLess(F64Value(0, f64(1)), op.coverage)
    /\ NotNegative(op.cost)

\* C26: in every state reached from Layout::new by the four mutations both
\* canvas dimensions are at least 1, so neither randomize_width nor
\* randomize_height meets an empty range and the canvas area the cost
\* divides by is not 0.
C26_CanvasPositive ==
  IsLayout(A) =>
    /\ A.canvas_dimensions.width >= 1 /\ A.canvas_dimensions.height >= 1
    /\ randomize_width(A) # {} /\ randomize_height(A) # {}
    /\ size(A.canvas_dimensions) # 0

\* ------------------------------------------------------ structural aborts
\* The layouts Layout::new passes through while it adds internal nodes:
\* those with 1 to n - 2 internal nodes, fewer than the n - 1 of the result.
PartialSkeletons(imgs, attach, pick) ==
  LET roots == {MkLayout(GraphAddNode(EmptyGraph, Internal(d)), canvas) : d \in SliceDirection, canvas \in CanvasChoices(imgs, pick)}
  IN UNION {AddInternals(r, k, attach) : r \in roots, k \in 0..(Len(imgs) - 3)}

\* Every image of imgs sits on exactly one leaf of l.
EachImageOnOneLeaf(l, imgs) == \A k \in 1..Len(imgs) : Cardinality({i \in LeafLabelled(l) : node_label(l, i).image = imgs[k]}) = 1

\* Layout::new on imgs: random_index_of_node_with_less_than_two_children
\* always has a candidate, the images never run out, and every image ends
\* up on exactly one leaf.
NewCompletes(imgs) ==
  /\ \A l \in PartialSkeletons(imgs, PopAttach, PopPick) : indexes_of_nodes_with_less_than_two_children(l) # <<>>
  /\ \A o \in NewOutcomes(imgs, PopAttach, PopShift, PopPick) :
       /\ o.ok /\ ~o.panic
       /\ Cardinality(LeafLabelled(o.layout)) = Len(imgs)
       /\ EachImageOnOneLeaf(o.layout, imgs)

NewNeverAborts == \A n \in 2..MaxCrossImages : NewCompletes(SquareImageList(n))

\* The leaf filling loop of self.swap_subtree(other, self_index, other_index).
FillOf(self, other, self_index, other_index) ==
  LET l == add_skeleton(self, subtree_to_blueprint(other, other_index))
  IN FillFromLeaves(l, indexes_of_nodes_with_less_than_two_children(l), self_subtree_leaf_indices(l, self_index))

\* root_node and children succeed on l: one node without incoming edge,
\* an outgoing edge at every internal node; and no leaf is unattached.
QueriesSucceed(l) ==
  /\ Cardinality({i \in Nodes(l) : InDegree(l, i) = 0}) = 1
  /\ \A i \in InternalLabelled(l) : children(l, i) # <<>>
  /\ \A i \in LeafLabelled(l) : InDegree(l, i) = 1

\* C28: the structural aborts are unreachable. Layout::new on two or more
\* images always finds an internal node with less than two children while
\* it adds internal nodes, never runs out of images and puts every image on
\* exactly one leaf; for every pair crossover_random_subtrees chooses on
\* layouts reached by mutations and crossovers, swap_subtree never runs
\* out of leaf nodes, leaves no leaf of the old subtree unattached, and
\* root_node and children succeed on both offspring.
C28_NoStructuralAbort ==
  /\ NewNeverAborts
  /\ (op.name = "initial_population") => (EachImageOnOneLeaf(A, images) /\ EachImageOnOneLeaf(B, images))
  /\ (op.name = "crossover" /\ op.chosen) =>
       /\ ~FillOf(pre[1], pre[2], op.pair[1], op.pair[2]).ran_out
       /\ FillOf(pre[1], pre[2], op.pair[1], op.pair[2]).rest = <<>>
       /\ ~FillOf(pre[2], pre[1], op.pair[2], op.pair[1]).ran_out
       /\ FillOf(pre[2], pre[1], op.pair[2], op.pair[1]).rest = <<>>
       /\ out.ok /\ ~out.panic
       /\ QueriesSucceed(A) /\ QueriesSucceed(B)
       /\ Cardinality(LeafLabelled(A)) = Cardinality(LeafLabelled(pre[1]))
       /\ Cardinality(LeafLabelled(B)) = Cardinality(LeafLabelled(pre[2]))

\* A crossover of subtrees with three leaves each and different shapes, on
\* layouts that an earlier crossover has changed.
C28_Witness ==
  /\ op.name = "crossover" /\ op.chosen
  /\ Len(images) = MaxCrossImages
  /\ Len(self_subtree_leaf_indices(pre[1], op.pair[1])) >= 3
  /\ subtree_to_blueprint(pre[1], op.pair[1]) # subtree_to_blueprint(pre[2], op.pair[2])
  /\ Len(hist) = 3 /\ hist[2] = "crossover"
  /\ out.ok /\ QueriesSucceed(A) /\ QueriesSucceed(B)

\* ------------------------------------------------------- leaves in buffer
\* The extent of node i along the axis its parent of direction d slices.
SliceExtent(l, i, d) == IF d = Vertical THEN node_dimensions(l, i).width ELSE node_dimensions(l, i).height

\* The two children of internal node i take no more than i's own extent
\* along i's slice axis.
ChildrenWithinNode(l, i) ==
  SliceExtent(l, children(l, i)[1], node_label(l, i).dir) + SliceExtent(l, children(l, i)[2], node_label(l, i).dir) <= SliceExtent(l, i, node_label(l, i).dir)

\* C29: for every strict binary tree render_layout draws every leaf inside
\* the output buffer: with (x, y) the offset and (w, h) the rectangle of a
\* leaf, x + w <= root width and y + h <= root height; at every internal
\* node the children's extents along the slice axis sum to at most the
\* node's extent; and the copy into the buffer never fails.
C29_LeavesInsideBuffer ==
  (op.name = "render_layout" /\ IsStrictBinaryTree(A)) =>
    /\ \A k \in 1..Len(op.result.copies) :
         /\ op.result.copies[k].at.x + op.result.copies[k].dimensions.width <= layout_dimensions(A).width
         /\ op.result.copies[k].at.y + op.result.copies[k].dimensions.height <= layout_dimensions(A).height
    /\ \A i \in InternalLabelled(A) : ChildrenWithinNode(A, i)
    /\ ~op.result.panic

\* ------------------------------------------------ breadth-first round trip
\* from_blueprint(to_blueprint(l), leaves of l in logical breadth-first
\* order from the root).
RoundTripBfs(l) == from_blueprint(to_blueprint(l), LeafImagesBfs(l))

\* No internal node of l has a leaf as left child and an internal node as
\* right child.
InternalChildOnLeft(l) ==
  \A i \in InternalLabelled(l) : ~(IsLeaf(node_label(l, children(l, i)[1])) /\ IsInternal(node_label(l, children(l, i)[2])))

\* A founder of FamilyImages images and its descendants by clones, swap
\* mutations and crossovers.
InitFamily ==
  /\ images = SquareImageList(FamilyImages)
  /\ A = NoLayout
  /\ B = NoLayout
  /\ op = NoOp
  /\ pre = <<NoLayout, NoLayout>>
  /\ out = Ok(NoLayout)
  /\ hist = <<>>

NextFamily == Founder \/ CloneInto("A", "B") \/ CloneInto("B", "A") \/ SwapRandomNodePair("A") \/ SwapRandomNodePair("B") \/ Crossover

SpecFamily == InitFamily /\ [][NextFamily]_vars

\* The round trip gives back l, and l has its internal children on the left.
RoundTripHolds(l) ==
  LET r == RoundTripBfs(l)
  IN r.ok /\ LayoutEq(r.layout, l) /\ InternalChildOnLeft(l)

\* C30: for every layout L reached from Layout::new by swap mutations and
\* crossovers, from_blueprint(to_blueprint(L), leaves of L in logical
\* breadth-first order) is logically equal to L, and every internal node
\* of L with one internal child and one leaf child has the internal child
\* on the left.
C30_RoundTripAfterCrossover ==
  /\ (op.name = "crossover") => (RoundTripHolds(A) /\ RoundTripHolds(B))
  /\ (op.name = "swap_random_node_pair") => RoundTripHolds(Slot(op.slot))

\* A crossover after a swap mutation that leaves A changed, with an
\* internal node over an internal child and a leaf, and with leaves whose
\* breadth-first order is not their index order.
C30_Witness ==
  /\ op.name = "crossover" /\ op.chosen
  /\ Len(hist) = 3 /\ hist[2] = "swap_random_node_pair"
  /\ A.graph # pre[1].graph
  /\ \E i \in InternalLabelled(A) : IsInternal(node_label(A, children(A, i)[1])) /\ IsLeaf(node_label(A, children(A, i)[2]))
  /\ LeafImagesBfs(A) # LeafImages(A)
  /\ RoundTripBfs(A).ok /\ LayoutEq(RoundTripBfs(A).layout, A)

====
